---- MODULE Spec2Model ----
(***************************************************************************)
(* Model of the UCI analysis aggregator (class UCIParser) of               *)
(* src/src/lib/gameManager.ts, lines 353-704.                              *)
(*                                                                         *)
(* A protocol line is modelled as the sequence of its fields in the order  *)
(* they appear in the text.  A field is a record                           *)
(*      [key |-> keyword, num |-> integer operand, mvs |-> move tokens]    *)
(* so that the line                                                        *)
(*      info depth 3 seldepth 4 multipv 2 score cp 25 pv d2d4 d7d5         *)
(* is << depth 3, seldepth 4, multipv 2, cp 25, pv <<d2d4, d7d5>> >>.      *)
(* The regular expressions of the parser are modelled by what they match   *)
(* on such a line: the first field, in text order, that the pattern can    *)
(* match.  A JavaScript Map is a sequence in insertion order, because the  *)
(* iteration order decides ties in getSnapshot.                            *)
(***************************************************************************)
EXTENDS Integers, Sequences, FiniteSets, TLC

(***************************************************************************)
(* Bounds of the model.                                                    *)
(***************************************************************************)
\* greatest value of a depth field in the lines fed to the parser
MaxDepth == 3
\* greatest number of calls made on the parser in one behaviour
MaxCalls == 3
\* greatest rank (multipv) of the lines whose ranking is compared
MaxRank == 2
\* greatest number of messages the engine worker posts in one behaviour
MaxPosts == 3
\* greatest number of changes of the fen prop in one behaviour
MaxChanges == 2
\* greatest number of calls of initEngine, makePlayerMove, reset, undo and
\* destroy that change the game manager in one behaviour
MaxOps == 3
\* greatest number of calls on the parser with its objects in one behaviour
MaxHeapCalls == 4

(***************************************************************************)
(* Absent values.                                                          *)
(***************************************************************************)
\* `undefined` for the optional numeric fields and a failed (\d+) match
Undefined == -1
\* `undefined` for bestMove, and a failed move match
NoMove == <<>>
\* `null` returned by extractScore
NoScore == [type |-> "none", value |-> 0]
\* an absent entry (Map.get returning undefined)
NoEntry == [move |-> NoMove, score |-> NoScore, depth |-> Undefined, pv |-> <<>>,
            multipv |-> Undefined, seldepth |-> Undefined, time |-> Undefined,
            nodes |-> Undefined]

(***************************************************************************)
(* Lines.                                                                  *)
(***************************************************************************)
Fld(k, n, m) == [key |-> k, num |-> n, mvs |-> m]
FDepth(d) == Fld("depth", d, <<>>)
FSelDepth(d) == Fld("seldepth", d, <<>>)
FMultiPV(r) == Fld("multipv", r, <<>>)
FNodes(n) == Fld("nodes", n, <<>>)
FTime(t) == Fld("time", t, <<>>)
FCp(c) == Fld("cp", c, <<>>)
FMate(m) == Fld("mate", m, <<>>)
FCurrMove(t) == Fld("currmove", 0, <<t>>)
FPv(ts) == Fld("pv", 0, ts)
FBestMove(t) == Fld("bestmove", 0, <<t>>)

\* The tokens of the lines fed to the parser, as their characters.
t0000 == <<"0", "0", "0", "0">>
b1c3 == <<"b", "1", "c", "3">>
c2c4 == <<"c", "2", "c", "4">>
d2d4 == <<"d", "2", "d", "4">>
d7d5 == <<"d", "7", "d", "5">>
e2e4 == <<"e", "2", "e", "4">>
e2e4x == <<"e", "2", "e", "4", "x">>
e2e9 == <<"e", "2", "e", "9">>
e7e5 == <<"e", "7", "e", "5">>
e7e8q == <<"e", "7", "e", "8", "q">>
g1f3 == <<"g", "1", "f", "3">>

\* [a-h], [1-8] and [qrbnQRBN]
Files == {"a", "b", "c", "d", "e", "f", "g", "h"}
Ranks == {"1", "2", "3", "4", "5", "6", "7", "8"}
Pieces == {"q", "r", "b", "n", "Q", "R", "B", "N"}

\* [a-h][1-8][a-h][1-8] matches the first four characters of a token
FromTo(tok) ==
    /\ Len(tok) >= 4
    /\ tok[1] \in Files
    /\ tok[2] \in Ranks
    /\ tok[3] \in Files
    /\ tok[4] \in Ranks

\* The longest prefix of a token that the pattern
\* [a-h][1-8][a-h][1-8][qrbnQRBN]? matches (NoMove when it matches none).
MovePrefix(tok) ==
    IF ~FromTo(tok) THEN NoMove
    ELSE IF Len(tok) = 4 THEN tok
    ELSE IF tok[5] \in Pieces
         THEN (IF Len(tok) = 5 THEN tok ELSE SubSeq(tok, 1, 5))
         ELSE SubSeq(tok, 1, 4)

\* /^[a-h][1-8][a-h][1-8][qrbnQRBN]?$/.test(move)
isValidMove(move) == move # NoMove /\ MovePrefix(move) = move

\* The least index of a set of field positions, 0 for the empty set: a
\* pattern matches at the first place of the text where it can.
FirstIdx(S) == IF S = {} THEN 0 ELSE CHOOSE i \in S : \A j \in S : i <= j

\* message.match(/depth (\d+)/): the pattern is not anchored at a word
\* boundary, so the text "seldepth 4" matches it as well as "depth 4".
MatchDepth(line) ==
    LET i == FirstIdx({j \in 1..Len(line) :
                 line[j].key \in {"depth", "seldepth"} /\ line[j].num >= 0})
    IN  IF i = 0 THEN Undefined ELSE line[i].num

\* message.match(/<key> (\d+)/) for multipv, seldepth, time and nodes
MatchNum(line, k) ==
    LET i == FirstIdx({j \in 1..Len(line) : line[j].key = k /\ line[j].num >= 0})
    IN  IF i = 0 THEN Undefined ELSE line[i].num

\* message.match(/currmove ([a-h][1-8][a-h][1-8][qrbnQRBN]?)/)
MatchCurrMove(line) ==
    LET i == FirstIdx({j \in 1..Len(line) :
                 line[j].key = "currmove" /\ MovePrefix(line[j].mvs[1]) # NoMove})
    IN  IF i = 0 THEN NoMove ELSE MovePrefix(line[i].mvs[1])

\* The group captured by (move(?:\s+move)*) on the tokens after "pv": a
\* further token is captured only when the one before it was matched whole.
RECURSIVE PvCapture(_, _)
PvCapture(toks, i) ==
    IF i > Len(toks) \/ MovePrefix(toks[i]) = NoMove THEN <<>>
    ELSE IF MovePrefix(toks[i]) = toks[i]
         THEN <<toks[i]>> \o PvCapture(toks, i + 1)
         ELSE <<MovePrefix(toks[i])>>

\* message.match(/\bpv (...)/) followed by trim().split(/\s+/)
MatchPv(line) ==
    LET i == FirstIdx({j \in 1..Len(line) :
                 /\ line[j].key = "pv"
                 /\ Len(line[j].mvs) > 0
                 /\ MovePrefix(line[j].mvs[1]) # NoMove})
    IN  IF i = 0 THEN <<>> ELSE PvCapture(line[i].mvs, 1)

\* extractScore: a centipawn score is looked for first, then a mate score
extractScore(line) ==
    LET c == FirstIdx({j \in 1..Len(line) : line[j].key = "cp"})
        m == FirstIdx({j \in 1..Len(line) : line[j].key = "mate"})
    IN  IF c # 0 THEN [type |-> "cp", value |-> line[c].num]
        ELSE IF m # 0 THEN [type |-> "mate", value |-> line[m].num]
        ELSE NoScore

(***************************************************************************)
(* Maps in insertion order.                                                *)
(***************************************************************************)
MapKeys(m) == {m[i].move : i \in 1..Len(m)}
MapHas(m, k) == \E i \in 1..Len(m) : m[i].move = k
MapGet(m, k) ==
    IF MapHas(m, k) THEN m[CHOOSE i \in 1..Len(m) : m[i].move = k] ELSE NoEntry
\* a set that keeps the entry of an existing key
MapSetIfAbsent(m, e) ==
    IF \E i \in 1..Len(m) : m[i].move = e.move THEN m ELSE Append(m, e)

\* Map.set: an existing key keeps its position, a new key goes last
MapSet(m, e) ==
    IF MapHas(m, e.move)
    THEN [i \in 1..Len(m) |-> IF m[i].move = e.move THEN e ELSE m[i]]
    ELSE Append(m, e)

\* depthAnalysis: Map<number, Map<string, MoveAnalysisData>>
DepthHas(da, d) == \E i \in 1..Len(da) : da[i].depth = d
DepthGet(da, d) ==
    IF DepthHas(da, d) THEN da[CHOOSE i \in 1..Len(da) : da[i].depth = d].moves ELSE <<>>
DepthSet(da, d, mp) ==
    IF DepthHas(da, d)
    THEN [i \in 1..Len(da) |-> IF da[i].depth = d THEN [depth |-> d, moves |-> mp] ELSE da[i]]
    ELSE Append(da, [depth |-> d, moves |-> mp])

(***************************************************************************)
(* The parser object.  A parser value is the record of the fields of a     *)
(* UCIParser instance; analysisCallback is TRUE when a callback is set.    *)
(***************************************************************************)
NewParser == [currentDepth |-> 0, moveAnalysis |-> <<>>, depthAnalysis |-> <<>>,
              isBlackToMove |-> FALSE, analysisCallback |-> FALSE]

\* reset() that forgets to clear the archive
resetKeepingArchive(p) == [p EXCEPT !.currentDepth = 0, !.moveAnalysis = <<>>,
                                    !.isBlackToMove = FALSE]

\* reset()
reset(p) == [p EXCEPT !.currentDepth = 0, !.moveAnalysis = <<>>,
                      !.depthAnalysis = <<>>, !.isBlackToMove = FALSE]

\* setSideToMove(isBlack) that also starts the live map afresh
setSideToMoveClearing(p, isBlack) ==
    [p EXCEPT !.isBlackToMove = isBlack, !.moveAnalysis = <<>>]

\* setSideToMove(isBlack)
setSideToMove(p, isBlack) == [p EXCEPT !.isBlackToMove = isBlack]

\* setAnalysisCallback(callback)
setAnalysisCallback(p) == [p EXCEPT !.analysisCallback = TRUE]

\* a weighting in which a nearer lost mate counts as worse than a farther one
calculateNumericScoreMirrored(score) ==
    IF score.type = "mate"
    THEN IF score.value > 0 THEN 10000 - score.value ELSE (0 - 10000) + score.value
    ELSE score.value

\* calculateNumericScore(score)
calculateNumericScore(score) ==
    IF score.type = "mate"
    THEN IF score.value > 0 THEN 10000 - score.value ELSE (0 - 10000) - score.value
    ELSE score.value

\* getSnapshot, first loop: the entries of moveAnalysis, in order
RECURSIVE AddLive(_, _, _)
AddLive(acc, ma, i) ==
    IF i > Len(ma) THEN acc
    ELSE LET existing == MapGet(acc, ma[i].move)
         IN  IF existing = NoEntry \/ ma[i].depth >= existing.depth
             THEN AddLive(MapSet(acc, ma[i]), ma, i + 1)
             ELSE AddLive(acc, ma, i + 1)

\* getSnapshot, inner loop over the moves of one archived depth
RECURSIVE AddArchived(_, _, _)
AddArchived(acc, depthMoves, i) ==
    IF i > Len(depthMoves) THEN acc
    ELSE IF ~MapHas(acc, depthMoves[i].move)
         THEN AddArchived(MapSet(acc, depthMoves[i]), depthMoves, i + 1)
         ELSE AddArchived(acc, depthMoves, i + 1)

\* getSnapshot, outer loop over depthAnalysis.entries(), in insertion order
RECURSIVE AddDepths(_, _, _)
AddDepths(acc, da, i) ==
    IF i > Len(da) THEN acc
    ELSE AddDepths(AddArchived(acc, da[i].moves, 1), da, i + 1)

\* a consolidation that starts from the archive and adds the live entries
\* only for the moves the archive does not have
ConsolidateArchiveFirst(p) ==
    AddArchived(AddDepths(<<>>, p.depthAnalysis, 1), p.moveAnalysis, 1)

\* the consolidated moves of getSnapshot
Consolidate(p) == AddDepths(AddLive(<<>>, p.moveAnalysis, 1), p.depthAnalysis, 1)

\* `analysis.multipv || 1`
RankOf(analysis) == IF analysis.multipv = 0 \/ analysis.multipv = Undefined
                    THEN 1 ELSE analysis.multipv

\* a comparison that does not look at the rank
BetterByScoreOnly(score, multipv, best) ==
    \/ ~best.found
    \/ score > best.score

\* a comparison that prefers the lower score
BetterWhenLower(score, multipv, best) ==
    \/ ~best.found
    \/ score < best.score

\* the comparison of the best-move loop; best.found = FALSE stands for
\* bestScore = -Infinity and bestMultiPV = Infinity
Better(score, multipv, best) ==
    \/ ~best.found
    \/ score > best.score
    \/ (score = best.score /\ multipv < best.multipv)

\* getSnapshot, best-move loop
RECURSIVE BestFrom(_, _, _)
BestFrom(moves, i, best) ==
    IF i > Len(moves) THEN best
    ELSE LET score == calculateNumericScore(moves[i].score)
             multipv == RankOf(moves[i])
         IN  IF Better(score, multipv, best)
             THEN BestFrom(moves, i + 1, [found |-> TRUE, move |-> moves[i].move,
                                          score |-> score, multipv |-> multipv])
             ELSE BestFrom(moves, i + 1, best)

NoBest == [found |-> FALSE, move |-> NoMove, score |-> 0, multipv |-> 0]

\* getSnapshot(isComplete); the timestamp is left out
getSnapshot(p, isComplete) ==
    LET consolidatedMoves == Consolidate(p)
    IN  [depth |-> p.currentDepth,
         moves |-> consolidatedMoves,
         bestMove |-> BestFrom(consolidatedMoves, 1, NoBest).move,
         isComplete |-> isComplete]

\* a snapshot that was never taken
NoSnapshot == [depth |-> Undefined, moves |-> <<>>, bestMove |-> NoMove,
               isComplete |-> FALSE]

\* `if (this.currentDepth > 0 && this.moveAnalysis.size > 0)
\*     this.depthAnalysis.set(this.currentDepth, new Map(this.moveAnalysis))`
storeDepthAnalysis(p) ==
    IF p.currentDepth > 0 /\ Len(p.moveAnalysis) > 0
    THEN [p EXCEPT !.depthAnalysis = DepthSet(p.depthAnalysis, p.currentDepth, p.moveAnalysis)]
    ELSE p

\* parseInfo, depth transition
depthTransition(p, depth) ==
    IF depth > p.currentDepth
    THEN [storeDepthAnalysis(p) EXCEPT !.moveAnalysis = <<>>, !.currentDepth = depth]
    ELSE p

\* a candidate-move step that overwrites whatever the live map holds
mayOverwriteAlways(existing) == TRUE

\* parseInfo, `!existing || !existing.pv`
mayOverwrite(existing) == existing = NoEntry \/ existing.pv = <<>>

\* `updated` that the candidate-move step forgets to set
updatedFlagPvOnly(wroteCurrMove, wrotePv) == wrotePv

\* parseInfo, the value of `updated` after the two writing steps
updatedFlag(wroteCurrMove, wrotePv) == wroteCurrMove \/ wrotePv

\* an emission that does not look at `updated`
mustEmitAlways(updated, callbackSet) == callbackSet

\* parseInfo, `if (updated && this.analysisCallback)`
mustEmit(updated, callbackSet) == updated /\ callbackSet

\* an archive whose map under currentDepth is the live map itself
archiveSharingLive(p) ==
    IF DepthHas(p.depthAnalysis, p.currentDepth)
    THEN DepthSet(p.depthAnalysis, p.currentDepth, p.moveAnalysis)
    ELSE p.depthAnalysis

\* What the archive reads once the live map of p has been written to: an
\* archived map is a Map of its own (`new Map(this.moveAnalysis)`).
archiveSeenAfter(p) == p.depthAnalysis

\* parseInfo(message).  The result carries the parser after the call, the
\* returned flag, the keys written by the call in order, the number of
\* callback invocations and the snapshot handed to the callback.
parseInfo(p, message) ==
    LET depth == MatchDepth(message)
        p1 == depthTransition(p, depth)
        mpv == MatchNum(message, "multipv")
        multipv == IF mpv = Undefined THEN 1 ELSE mpv
        seldepth == MatchNum(message, "seldepth")
        time == MatchNum(message, "time")
        nodes == MatchNum(message, "nodes")
        score == extractScore(message)
        move == MatchCurrMove(message)
        wroteCurrMove == /\ move # NoMove
                         /\ score # NoScore
                         /\ mayOverwrite(MapGet(p1.moveAnalysis, move))
        ma3 == IF wroteCurrMove
               THEN MapSet(p1.moveAnalysis,
                           [move |-> move, score |-> score, depth |-> depth,
                            pv |-> <<>>, multipv |-> multipv, seldepth |-> seldepth,
                            time |-> time, nodes |-> nodes])
               ELSE p1.moveAnalysis
        moves == MatchPv(message)
        firstMove == IF moves = <<>> THEN NoMove ELSE moves[1]
        wrotePv == /\ moves # <<>>
                   /\ isValidMove(firstMove)
                   /\ score # NoScore
        ma4 == IF wrotePv
               THEN MapSet(ma3,
                           [move |-> firstMove, score |-> score, depth |-> depth,
                            pv |-> moves, multipv |-> multipv, seldepth |-> seldepth,
                            time |-> time, nodes |-> nodes])
               ELSE ma3
        p4 == [p1 EXCEPT !.moveAnalysis = ma4,
                         !.depthAnalysis = archiveSeenAfter([p1 EXCEPT !.moveAnalysis = ma4])]
        updated == updatedFlag(wroteCurrMove, wrotePv)
        emit == mustEmit(updated, p.analysisCallback)
    IN  IF depth = Undefined
        THEN [parser |-> p, ret |-> FALSE, writes |-> <<>>, calls |-> 0,
              delivered |-> NoSnapshot]
        ELSE [parser |-> p4, ret |-> updated,
              writes |-> (IF wroteCurrMove THEN <<move>> ELSE <<>>)
                         \o (IF wrotePv THEN <<firstMove>> ELSE <<>>),
              calls |-> IF emit THEN 1 ELSE 0,
              delivered |-> IF emit THEN getSnapshot(p4, FALSE) ELSE NoSnapshot]

\* a handleBestMove that does not archive the live map
handleBestMoveWithoutStoring(p, message) ==
    [parser |-> p, snapshot |-> getSnapshot(p, TRUE)]

\* a handleBestMove that empties the live map once it is archived
handleBestMoveClearing(p, message) ==
    LET stored == [storeDepthAnalysis(p) EXCEPT !.moveAnalysis = <<>>]
    IN  [parser |-> stored, snapshot |-> getSnapshot(stored, TRUE)]

\* handleBestMove(message)
handleBestMove(p, message) ==
    LET stored == storeDepthAnalysis(p)
    IN  [parser |-> stored, snapshot |-> getSnapshot(stored, TRUE)]

\* Number.prototype.toFixed(2) of v/100 for an integer v
toFixed2(v) ==
    LET a == IF v < 0 THEN 0 - v ELSE v
        frac == a % 100
    IN  (IF v < 0 THEN "-" ELSE "") \o ToString(a \div 100) \o "."
        \o (IF frac < 10 THEN "0" ELSE "") \o ToString(frac)

NoEval == [score |-> 0, displayScore |-> "", isMate |-> FALSE, present |-> FALSE]

\* a conversion that leaves the engine's value as it is
toWhiteUnconverted(v, isBlack) == v

\* `if (this.isBlackToMove) { mateIn = -mateIn; }` and the same for rawScore:
\* the conversion of a value of the side to move to white's perspective
toWhite(v, isBlack) == IF isBlack THEN 0 - v ELSE v

\* a mate 0 that always counts against white
checkmateScoreOneSided(isBlack) == (0 - 1100) * 100

\* a mate 0 that counts against the side that delivered it
checkmateScoreSwapped(isBlack) == IF isBlack THEN (0 - 1100) * 100 ELSE 1100 * 100

\* the score returned for mate 0, in hundredths of a pawn: 1100 when black
\* is to move (black is checkmated), -1100 when white is to move
checkmateScore(isBlack) == IF isBlack THEN 1100 * 100 ELSE (0 - 1100) * 100

\* a display text without the plus sign
cpDisplayScoreUnsigned(rawScore) == toFixed2(rawScore)

\* `rawScore > 0 ? `+${rawScore.toFixed(2)}` : rawScore.toFixed(2)`
cpDisplayScore(rawScore) ==
    IF rawScore > 0 THEN "+" \o toFixed2(rawScore) ELSE toFixed2(rawScore)

\* parseEvaluation(message); the numeric score is in hundredths of a pawn
parseEvaluation(p, message) ==
    LET mi == FirstIdx({j \in 1..Len(message) : message[j].key = "mate"})
        ci == FirstIdx({j \in 1..Len(message) : message[j].key = "cp"})
        mateIn == toWhite(message[mi].num, p.isBlackToMove)
        absMate == IF mateIn < 0 THEN 0 - mateIn ELSE mateIn
        rawScore == toWhite(message[ci].num, p.isBlackToMove)
    IN  IF mi # 0
        THEN IF mateIn = 0
             THEN [score |-> checkmateScore(p.isBlackToMove), displayScore |-> "#",
                   isMate |-> TRUE, present |-> TRUE]
             ELSE [score |-> IF mateIn > 0 THEN (1000 - absMate) * 100
                                           ELSE (0 - (1000 - absMate)) * 100,
                   displayScore |-> IF mateIn > 0 THEN "+M" \o ToString(absMate)
                                                  ELSE "-M" \o ToString(absMate),
                   isMate |-> TRUE, present |-> TRUE]
        ELSE IF ci # 0
        THEN [score |-> rawScore, displayScore |-> cpDisplayScore(rawScore),
              isMate |-> FALSE, present |-> TRUE]
        ELSE NoEval

(***************************************************************************)
(* The lines fed to the parser.                                            *)
(***************************************************************************)
FInfo == Fld("info", 0, <<>>)

\* the reports an engine sends while it deepens, at every depth from 1 on
DepthLines ==
    UNION {{ <<FInfo, FDepth(d), FCp(10), FCurrMove(e2e4)>>,
             <<FInfo, FDepth(d), FCp(30), FPv(<<e2e4, d2d4>>)>>,
             <<FInfo, FDepth(d), FSelDepth(d + 1), FMultiPV(2), FMate(1), FNodes(589),
               FTime(7), FPv(<<d2d4>>)>> } : d \in 1..MaxDepth}

\* lines with depth 0, with a missing or misplaced field, with a malformed
\* move, or with two moves
OddLines ==
    { <<FInfo, FDepth(0), FCp(10), FCurrMove(e2e4)>>,
      <<FInfo, FCp(10), FCurrMove(e2e4)>>,
      <<FInfo, FSelDepth(2), FCp(10), FCurrMove(e2e4)>>,
      <<FInfo, FSelDepth(3), FDepth(1), FCp(30), FPv(<<e2e4, d2d4>>)>>,
      <<FInfo, FSelDepth(3), FDepth(2), FCp(30), FPv(<<e2e4, d2d4>>)>>,
      <<FInfo, FDepth(2), FCp(10)>>,
      <<FInfo, FSelDepth(1), FDepth(2), FCp(10)>>,
      <<FInfo, FDepth(2), FCurrMove(e2e4)>>,
      <<FInfo, FDepth(2), FCp(10), FCurrMove(d2d4), FPv(<<e2e4, d2d4>>)>>,
      <<FInfo, FDepth(2), FCp(30), FCurrMove(e2e4), FPv(<<e2e4>>)>>,
      <<FInfo, FDepth(2), FCp(10), FPv(<<e2e9, d2d4>>)>>,
      <<FInfo, FDepth(2), FCp(10), FPv(<<e2e4x, d2d4>>)>>,
      <<FInfo, FDepth(2), FCp(10), FCurrMove(d2d4), FPv(<<e2e9>>)>> }

\* `info depth 3 multipv 1 score cp 30 pv e2e4 e7e5` and
\* `info depth 3 multipv 2 score cp 25 pv d2d4 d7d5`
ScenarioA1 == <<FInfo, FDepth(3), FMultiPV(1), FCp(30), FPv(<<e2e4, e7e5>>)>>
ScenarioA2 == <<FInfo, FDepth(3), FMultiPV(2), FCp(25), FPv(<<d2d4, d7d5>>)>>

Lines == DepthLines \cup OddLines \cup {ScenarioA1, ScenarioA2}

\* the mate distances and centipawn values of the lines whose evaluation is
\* asked for
MateValues == {0, 1, 0 - 1, 5, 0 - 5, 1000, 0 - 1001, 2101}
CpValues == {0, 5, 10, 0 - 99, 900}

\* `info depth 10 score mate 0` and `info depth 4 score cp -250`
ScenarioC == <<FInfo, FDepth(10), FMate(0)>>
ScenarioCp == <<FInfo, FDepth(4), FCp(0 - 250)>>

\* the lines whose evaluation is asked for: a mate score, a centipawn score,
\* both in either order, or neither
EvalLines ==
    {<<FInfo, FDepth(2), FMate(m)>> : m \in MateValues}
    \cup {<<FInfo, FDepth(2), FCp(c)>> : c \in CpValues}
    \cup { <<FInfo, FDepth(0), FMate(0)>>,
           ScenarioC,
           ScenarioCp,
           <<FInfo, FDepth(2), FCp(30), FMate(2)>>,
           <<FInfo, FDepth(2), FMate(0 - 3), FCp(30)>>,
           <<FInfo, FDepth(2)>>,
           <<FInfo, FDepth(2), FPv(<<e2e4>>)>> }

\* the terminal lines
BestMoveLines == { <<FBestMove(e2e4)>>, <<FBestMove(t0000)>> }

\* the moves that can become keys
Moves == {e2e4, d2d4}

(***************************************************************************)
(* The lines whose ranking is compared.  All are principal-variation       *)
(* reports of depth 1, so that the live map holds one entry per line, in   *)
(* the order of arrival.                                                   *)
(***************************************************************************)
Cp(v) == [type |-> "cp", value |-> v]
Mate(v) == [type |-> "mate", value |-> v]

\* `info depth 1 multipv <rank> score <cp|mate> <value> pv <move>`
RankLine(move, score, rank) ==
    <<FInfo, FDepth(1), FMultiPV(rank),
      IF score.type = "cp" THEN FCp(score.value) ELSE FMate(score.value),
      FPv(<<move>>)>>

\* the ordering sample: mate in 1, mate in 5, +9.00, 0.00, mated in 5,
\* mated in 1, each for a move of its own
SampleMoves == <<e2e4, d2d4, g1f3, b1c3, c2c4, e7e8q>>
SampleScores == <<Mate(1), Mate(5), Cp(900), Cp(0), Mate(0 - 5), Mate(0 - 1)>>

\* every subset of the sample in every order of arrival
SampleOrders ==
    {o \in UNION {[1..k -> 1..Len(SampleMoves)] : k \in 0..Len(SampleMoves)} :
        \A i, j \in DOMAIN o : o[i] = o[j] => i = j}
SampleFeeds ==
    {[i \in DOMAIN o |-> RankLine(SampleMoves[o[i]], SampleScores[o[i]], 1)] :
        o \in SampleOrders}

\* two lines with any two of these scores and ranks, in both orders
RankScores == {Mate(1), Mate(0), Mate(0 - 1), Cp(0), Cp(900), Cp(9999),
               Cp(20000), Cp(0 - 20000)}
PairFeeds ==
    {<<RankLine(ms[1], s1, r1), RankLine(ms[2], s2, r2)>> :
        ms \in {<<e2e4, d2d4>>, <<d2d4, e2e4>>},
        s1 \in RankScores, s2 \in RankScores,
        r1 \in 1..MaxRank, r2 \in 1..MaxRank}

\* three lines with one of two scores each and any ranks, in every order
TieOrders == {o \in [1..3 -> 1..3] : \A i, j \in 1..3 : o[i] = o[j] => i = j}
TieFeeds ==
    {[i \in 1..3 |-> RankLine(SampleMoves[o[i]], ss[i], rs[i])] :
        o \in TieOrders,
        ss \in [1..3 -> {Cp(0), Cp(900)}],
        rs \in [1..3 -> 1..MaxRank]}

RankFeeds == SampleFeeds \cup PairFeeds \cup TieFeeds

(***************************************************************************)
(* The parser with the objects it makes.  The records above take a Map by  *)
(* its content; here a Map and a MoveAnalysisData object are objects of    *)
(* their own, so that two holders of one object see each other's writes:   *)
(*   maps      the Map<string, MoveAnalysisData> objects made so far, each *)
(*             the sequence of its [move, entry] pairs in insertion order, *)
(*             `entry` being a reference to a MoveAnalysisData object;     *)
(*   entries   the MoveAnalysisData objects made so far.                   *)
(* A reference is the place of the object in `maps` or `entries`.  The     *)
(* field moveAnalysis is a reference to a Map, depthAnalysis holds under   *)
(* each depth a reference to a Map, and the `moves` of a snapshot is a     *)
(* reference to a Map.                                                     *)
(***************************************************************************)
\* new UCIParser(): `new Map()` for moveAnalysis, then reset()
NewHeap == [currentDepth |-> 0, moveAnalysis |-> 1, depthAnalysis |-> <<>>,
            isBlackToMove |-> FALSE, analysisCallback |-> FALSE,
            maps |-> << <<>> >>, entries |-> <<>>]
\* no parser with objects
NoHeap == <<>>

\* a [move, entry] pair of a Map
Pair(move, entry) == [move |-> move, entry |-> entry]
\* Map.get(move) on the pairs of a Map: the reference, 0 for undefined
RefGet(pairs, move) ==
    IF MapHas(pairs, move)
    THEN pairs[CHOOSE i \in 1..Len(pairs) : pairs[i].move = move].entry
    ELSE 0
\* the object behind the reference returned by Map.get
EntryAt(h, entry) == IF entry = 0 THEN NoEntry ELSE h.entries[entry]
\* the content of a Map: its entries in insertion order
ReadMap(h, map) == [i \in 1..Len(h.maps[map]) |-> h.entries[h.maps[map][i].entry]]
\* the fields of the parser with the content of its maps
View(h) ==
    [currentDepth |-> h.currentDepth,
     moveAnalysis |-> ReadMap(h, h.moveAnalysis),
     depthAnalysis |-> [i \in 1..Len(h.depthAnalysis) |->
                           [depth |-> h.depthAnalysis[i].depth,
                            moves |-> ReadMap(h, h.depthAnalysis[i].moves)]],
     isBlackToMove |-> h.isBlackToMove,
     analysisCallback |-> h.analysisCallback]
\* what a consumer reads in a snapshot it holds
ReadSnapshot(h, snapshot) ==
    IF snapshot.depth = Undefined THEN NoSnapshot
    ELSE [depth |-> snapshot.depth, moves |-> ReadMap(h, snapshot.moves),
          bestMove |-> snapshot.bestMove, isComplete |-> snapshot.isComplete]

\* a getSnapshot that consolidates into the live map itself
consolidatedIsLive(h) == [heap |-> h, map |-> h.moveAnalysis]

\* `const consolidatedMoves = new Map<string, MoveAnalysisData>()`
newConsolidated(h) ==
    [heap |-> [h EXCEPT !.maps = Append(@, <<>>)], map |-> Len(h.maps) + 1]

\* getSnapshot, first loop: `consolidatedMoves.set(move, analysis)` for the
\* pairs of moveAnalysis, in order
RECURSIVE HeapAddLive(_, _, _, _)
HeapAddLive(h, consolidatedMoves, pairs, i) ==
    IF i > Len(pairs) THEN h
    ELSE IF \/ RefGet(h.maps[consolidatedMoves], pairs[i].move) = 0
            \/ h.entries[pairs[i].entry].depth
                 >= h.entries[RefGet(h.maps[consolidatedMoves], pairs[i].move)].depth
         THEN HeapAddLive([h EXCEPT !.maps[consolidatedMoves] = MapSet(@, pairs[i])],
                          consolidatedMoves, pairs, i + 1)
         ELSE HeapAddLive(h, consolidatedMoves, pairs, i + 1)

\* getSnapshot, inner loop over the pairs of one archived Map
RECURSIVE HeapAddArchived(_, _, _, _)
HeapAddArchived(h, consolidatedMoves, pairs, i) ==
    IF i > Len(pairs) THEN h
    ELSE IF ~MapHas(h.maps[consolidatedMoves], pairs[i].move)
         THEN HeapAddArchived([h EXCEPT !.maps[consolidatedMoves] = MapSet(@, pairs[i])],
                              consolidatedMoves, pairs, i + 1)
         ELSE HeapAddArchived(h, consolidatedMoves, pairs, i + 1)

\* getSnapshot, outer loop over depthAnalysis.entries(), in insertion order
RECURSIVE HeapAddDepths(_, _, _)
HeapAddDepths(h, consolidatedMoves, i) ==
    IF i > Len(h.depthAnalysis) THEN h
    ELSE HeapAddDepths(HeapAddArchived(h, consolidatedMoves,
                                       h.maps[h.depthAnalysis[i].moves], 1),
                       consolidatedMoves, i + 1)

\* getSnapshot(isComplete): the parser and its objects after the call and
\* the snapshot returned; the timestamp is left out
heapGetSnapshot(h, isComplete) ==
    LET made == newConsolidated(h)
        filled == HeapAddDepths(HeapAddLive(made.heap, made.map,
                                            h.maps[h.moveAnalysis], 1),
                                made.map, 1)
    IN  [heap |-> filled,
         snapshot |-> [depth |-> filled.currentDepth,
                       moves |-> made.map,
                       bestMove |-> BestFrom(ReadMap(filled, made.map), 1, NoBest).move,
                       isComplete |-> isComplete]]

\* `if (this.currentDepth > 0 && this.moveAnalysis.size > 0)
\*     this.depthAnalysis.set(this.currentDepth, new Map(this.moveAnalysis))`
heapStoreDepthAnalysis(h) ==
    IF h.currentDepth > 0 /\ Len(h.maps[h.moveAnalysis]) > 0
    THEN [h EXCEPT !.maps = Append(@, h.maps[h.moveAnalysis]),
                   !.depthAnalysis = DepthSet(@, h.currentDepth, Len(h.maps) + 1)]
    ELSE h

\* parseInfo, depth transition: `this.moveAnalysis.clear()` empties the Map
\* object the field refers to
heapDepthTransition(h, depth) ==
    IF depth > h.currentDepth
    THEN [heapStoreDepthAnalysis(h) EXCEPT !.maps[h.moveAnalysis] = <<>>,
                                           !.currentDepth = depth]
    ELSE h

\* a write that assigns the fields of the object the live map already holds
\* for the move
putEntryInPlace(h, analysis) ==
    IF MapHas(h.maps[h.moveAnalysis], analysis.move)
    THEN [h EXCEPT !.entries[RefGet(h.maps[h.moveAnalysis], analysis.move)] = analysis]
    ELSE [h EXCEPT !.entries = Append(@, analysis),
                   !.maps[h.moveAnalysis] =
                       MapSet(@, Pair(analysis.move, Len(h.entries) + 1))]

\* `this.moveAnalysis.set(move, { ... })`: a new object is made and put
\* under the move
putEntry(h, analysis) ==
    [h EXCEPT !.entries = Append(@, analysis),
              !.maps[h.moveAnalysis] =
                  MapSet(@, Pair(analysis.move, Len(h.entries) + 1))]

\* parseInfo(message): the parser and its objects after the call, the
\* returned flag and the snapshot handed to the callback
heapParseInfo(h, message) ==
    LET depth == MatchDepth(message)
        h1 == heapDepthTransition(h, depth)
        mpv == MatchNum(message, "multipv")
        multipv == IF mpv = Undefined THEN 1 ELSE mpv
        seldepth == MatchNum(message, "seldepth")
        time == MatchNum(message, "time")
        nodes == MatchNum(message, "nodes")
        score == extractScore(message)
        move == MatchCurrMove(message)
        wroteCurrMove ==
            /\ move # NoMove
            /\ score # NoScore
            /\ mayOverwrite(EntryAt(h1, RefGet(h1.maps[h1.moveAnalysis], move)))
        h3 == IF wroteCurrMove
              THEN putEntry(h1, [move |-> move, score |-> score, depth |-> depth,
                                 pv |-> <<>>, multipv |-> multipv,
                                 seldepth |-> seldepth, time |-> time,
                                 nodes |-> nodes])
              ELSE h1
        moves == MatchPv(message)
        firstMove == IF moves = <<>> THEN NoMove ELSE moves[1]
        wrotePv == /\ moves # <<>>
                   /\ isValidMove(firstMove)
                   /\ score # NoScore
        h4 == IF wrotePv
              THEN putEntry(h3, [move |-> firstMove, score |-> score, depth |-> depth,
                                 pv |-> moves, multipv |-> multipv,
                                 seldepth |-> seldepth, time |-> time,
                                 nodes |-> nodes])
              ELSE h3
        updated == updatedFlag(wroteCurrMove, wrotePv)
    IN  IF depth = Undefined
        THEN [heap |-> h, ret |-> FALSE, delivered |-> NoSnapshot]
        ELSE IF mustEmit(updated, h.analysisCallback)
        THEN [heap |-> heapGetSnapshot(h4, FALSE).heap, ret |-> updated,
              delivered |-> heapGetSnapshot(h4, FALSE).snapshot]
        ELSE [heap |-> h4, ret |-> updated, delivered |-> NoSnapshot]

\* handleBestMove(message)
heapHandleBestMove(h, message) == heapGetSnapshot(heapStoreDepthAnalysis(h), TRUE)

\* reset(): clear() empties the two Map objects of the parser
heapReset(h) ==
    [h EXCEPT !.currentDepth = 0, !.maps[h.moveAnalysis] = <<>>,
              !.depthAnalysis = <<>>, !.isBlackToMove = FALSE]

\* setSideToMove(isBlack)
heapSetSideToMove(h, isBlack) == [h EXCEPT !.isBlackToMove = isBlack]

\* setAnalysisCallback(callback)
heapSetAnalysisCallback(h) == [h EXCEPT !.analysisCallback = TRUE]

\* parseEvaluation(message), the variables of the call once its assignments
\* are made: `this`, and the locals `mateIn` and `rawScore`, which are
\* negated when black is to move (Undefined when the pattern does not match)
evaluationLocals(h, message) ==
    LET mi == FirstIdx({j \in 1..Len(message) : message[j].key = "mate"})
        ci == FirstIdx({j \in 1..Len(message) : message[j].key = "cp"})
    IN  [this |-> h,
         mateMatch |-> mi # 0,
         mateIn |-> IF mi = 0 THEN Undefined
                    ELSE toWhite(message[mi].num, h.isBlackToMove),
         cpMatch |-> ci # 0,
         rawScore |-> IF ci = 0 THEN Undefined
                      ELSE toWhite(message[ci].num, h.isBlackToMove)]

\* parseEvaluation(message): the parser and its objects after the call and
\* the object returned
heapParseEvaluation(h, message) ==
    LET locals == evaluationLocals(h, message)
        absMate == IF locals.mateIn < 0 THEN 0 - locals.mateIn ELSE locals.mateIn
    IN  [heap |-> locals.this,
         eval |-> IF locals.mateMatch
                  THEN IF locals.mateIn = 0
                       THEN [score |-> checkmateScore(locals.this.isBlackToMove),
                             displayScore |-> "#", isMate |-> TRUE, present |-> TRUE]
                       ELSE [score |-> IF locals.mateIn > 0 THEN (1000 - absMate) * 100
                                       ELSE (0 - (1000 - absMate)) * 100,
                             displayScore |-> IF locals.mateIn > 0
                                              THEN "+M" \o ToString(absMate)
                                              ELSE "-M" \o ToString(absMate),
                             isMate |-> TRUE, present |-> TRUE]
                  ELSE IF locals.cpMatch
                  THEN [score |-> locals.rawScore,
                        displayScore |-> cpDisplayScore(locals.rawScore),
                        isMate |-> FALSE, present |-> TRUE]
                  ELSE NoEval]

\* the lines fed to the parser with its objects: the reports of the first
\* two depths
HeapLines == {line \in DepthLines : MatchNum(line, "depth") <= 2}
\* the lines whose evaluation is asked of it
HeapEvalLines == {ScenarioC, ScenarioCp, <<FInfo, FDepth(2)>>}

(***************************************************************************)
(* EvaluationBar.svelte: the component owns a parser and an engine worker. *)
(* A message of the worker carries, besides its text, the position the     *)
(* engine was searching when it posted it.                                 *)
(***************************************************************************)
\* a FEN as the sequence of its fields (`fen.split(' ')`); the board field
\* is a name
Fen(board, side) == <<board, side, "KQkq", "-", "0", "1">>
PositionA == Fen("A", "w")
PositionB == Fen("B", "b")
Positions == {PositionA, PositionB}
NoFen == <<>>

\* `fen.split(' ')[1] === 'b'`
fenIsBlackToMove(fen) == fen[2] = "b"

\* the lines the engine reports for a position searched with MultiPV, and
\* the terminal line of that search
PositionB1 == <<FInfo, FDepth(3), FMultiPV(1), FCp(0 - 40), FPv(<<e7e5, g1f3>>)>>
PositionB2 == <<FInfo, FDepth(3), FMultiPV(2), FCp(0 - 60), FPv(<<d7d5, c2c4>>)>>
EngineLines(fen) ==
    IF fen = PositionA THEN {ScenarioA1, ScenarioA2} ELSE {PositionB1, PositionB2}
EngineBestMove(fen) ==
    IF fen = PositionA THEN <<FBestMove(e2e4)>> ELSE <<FBestMove(e7e5)>>

\* a message event of the worker
Posted(data, fen) == [data |-> data, of |-> fen]
NoMessage == Posted(<<>>, NoFen)

\* a command posted to the worker
Command(name, fen) == [name |-> name, fen |-> fen]

\* analyzePosition(): nothing without a worker, else the five postMessage
\* calls in order
analyzePosition(worker, fen) ==
    IF ~worker THEN <<>>
    ELSE << Command("uci", NoFen), Command("isready", NoFen),
            Command("position", fen), Command("setoption", NoFen),
            Command("go", NoFen) >>

\* the component and its worker after construction with the prop `fen`:
\*   fen, worker, score, displayScore, isMate   the component's variables;
\*   commands   the commands posted to the worker and not yet taken by it;
\*   position   the position the engine was last given;
\*   searching  the position of the search in progress, NoFen when idle;
\*   inbox      the messages posted by the worker and not yet handled;
\*   posts, changes   counters of the worker's posts and of the fen changes;
\*   handled    the last message handled since the last fen change;
\*   dispatched the last snapshot dispatched since the last fen change;
\*   seen       the info lines handled since the last fen change;
\*   destroyed  the component has been destroyed.
NewBar(fen) ==
    [fen |-> fen, worker |-> FALSE, score |-> 0, displayScore |-> "0.00",
     isMate |-> FALSE, commands |-> <<>>, position |-> NoFen, searching |-> NoFen,
     inbox |-> <<>>, posts |-> 0, changes |-> 0, handled |-> NoMessage,
     dispatched |-> NoSnapshot, seen |-> {}, destroyed |-> FALSE]
\* no component
NoBar == <<>>

\* handleMessage(event) on the parser p and the component c: the parser,
\* the displayed evaluation and the snapshot dispatched as 'analysis'
handleMessage(c, p, message) ==
    IF message # <<>> /\ message[1].key = "info"
    THEN LET r == parseInfo(p, message)
             evalResult == parseEvaluation(r.parser, message)
         IN  [parser |-> r.parser,
              score |-> IF evalResult.present THEN evalResult.score ELSE c.score,
              displayScore |-> IF evalResult.present THEN evalResult.displayScore
                                                     ELSE c.displayScore,
              isMate |-> IF evalResult.present THEN evalResult.isMate ELSE c.isMate,
              dispatched |-> IF r.calls > 0 THEN r.delivered ELSE NoSnapshot]
    ELSE IF message # <<>> /\ message[1].key = "bestmove"
    THEN LET r == handleBestMove(p, message)
         IN  [parser |-> r.parser, score |-> c.score, displayScore |-> c.displayScore,
              isMate |-> c.isMate, dispatched |-> r.snapshot]
    ELSE [parser |-> p, score |-> c.score, displayScore |-> c.displayScore,
          isMate |-> c.isMate, dispatched |-> NoSnapshot]

(***************************************************************************)
(* GameManager (gameManager.ts, lines 32-351).  The chess.js board is kept *)
(* as the game it belongs to (a new one for every `new Chess`), the fen it *)
(* was made from, the moves of its history and the number of calls of     *)
(* undo() that took moves back on it.  A move of the history is kept as    *)
(* what it left on the board and the number of such calls before it was    *)
(* made:                                                                   *)
(*   "m"  play goes on;                                                    *)
(*   "#"  checkmate;                                                       *)
(*   "s"  stalemate;                                                       *)
(*   "d"  a draw (too little material, fifty moves, a repetition): the     *)
(*        game is over and moves can still be made.                        *)
(***************************************************************************)
Chess(game, fen, history, undone) ==
    [game |-> game, fen |-> fen, history |-> history, undone |-> undone]
Opposite(side) == IF side = "w" THEN "b" ELSE "w"
Move(kind, n) == [kind |-> kind, n |-> n]
MoveKinds == {"m", "#", "s", "d"}

\* the fens a game is made from: two positions where play goes on, one with
\* White and one with Black to move, and `8/8/8/8/8/8/8/K6k b - - 0 1`,
\* where the game is drawn and stays so whatever the two kings do
StartWhite == Fen("S", "w")
StartBlack == Fen("T", "b")
BareKings == Fen("K", "b")
GameFens == {StartWhite, StartBlack, BareKings}

\* chess.turn()
turn(chess) ==
    IF Len(chess.history) % 2 = 0 THEN chess.fen[2] ELSE Opposite(chess.fen[2])
\* what the last move left on the board, "m" on a new board
lastKind(chess) ==
    IF chess.history = <<>> THEN "m" ELSE chess.history[Len(chess.history)].kind
\* chess.isCheckmate()
isCheckmate(chess) == lastKind(chess) = "#"
\* chess.isStalemate()
isStalemate(chess) == lastKind(chess) = "s"
\* chess.isGameOver(): checkmate, stalemate or a draw
isGameOver(chess) == chess.fen = BareKings \/ lastKind(chess) \in {"#", "s", "d"}
\* the kinds of the moves chess.move accepts on a board: none after
\* checkmate or stalemate, and with two bare kings every move leaves a draw
MovesOn(chess) ==
    IF isCheckmate(chess) \/ isStalemate(chess) THEN {}
    ELSE IF chess.fen = BareKings THEN {"d"}
    ELSE MoveKinds
\* chess.move(move) where it does not throw
moved(chess, kind) ==
    [chess EXCEPT !.history = Append(@, Move(kind, chess.undone))]
\* the same position on two boards for sure: two boards as they were made
\* from the same fen, or boards of the same game with the same calls of
\* chess.move in their history (between two calls of undo() a place of the
\* history is written once), whatever was made and undone in between
SameBoard(a, b) ==
    /\ a.fen = b.fen
    /\ a.history = b.history
    /\ (a.game = b.game \/ a.history = <<>>)
\* no board
NoChess == Chess(0, NoFen, <<>>, 0)

\* chess.move threw
Thrown == ""

\* what the last step did: "search" (a search was requested), "applied" or
\* "rejected" (a best move was handled) with the board the step found and
\* the board of the search a handled bestmove answered, or "step"
GameStep(op, chess, search) == [op |-> op, chess |-> chess, search |-> search]

\* a command posted to a worker
GameCommand(name, value, chess) == [name |-> name, value |-> value, chess |-> chess]
isGo(command) == command.name \in {"go movetime", "go depth"}

\* a Worker object: the commands posted to it and not yet taken by it, the
\* board of the last `position` command it took and the board of the search
\* in progress, NoChess when idle
EngineWorker(commands, position, searching) ==
    [commands |-> commands, position |-> position, searching |-> searching]
\* a worker after terminate()
Terminated == EngineWorker(<<>>, NoChess, NoChess)
\* a message posted by the worker `from`: its text, and for a bestmove the
\* move and the board of the search it answers
EngineMessage(data, move, of, from) ==
    [data |-> data, move |-> move, of |-> of, from |-> from]

\* Math.max(1, Math.min(20, computerLevel))
clampLevel(computerLevel) ==
    IF computerLevel > 20 THEN 20 ELSE IF computerLevel < 1 THEN 1 ELSE computerLevel

\* new GameManager(initialFen, playerColor, computerLevel):
\*   chess, playerColor, computerLevel, isThinking
\*              the fields of the object;
\*   worker     the field `worker`: the place in `workers` of the Worker it
\*              holds, 0 when it is null;
\*   workerDefined   typeof Worker !== 'undefined' where the program runs;
\*   timers     the pending setTimeout callbacks: "init" of initEngine,
\*              "move" of makePlayerMove and reset;
\*   workers    the Worker objects made by initEngine, in the order they
\*              were made; each has handleEngineMessage as its onmessage;
\*   inbox      the messages posted by the workers and not yet handled;
\*   ops        the number of calls of initEngine, makePlayerMove, reset,
\*              undo and destroy that changed the manager;
\*   last       the last step.
NewGame(fen, playerColor, computerLevel, workerDefined) ==
    [chess |-> Chess(1, fen, <<>>, 0), worker |-> 0, playerColor |-> playerColor,
     computerLevel |-> clampLevel(computerLevel), isThinking |-> FALSE,
     workerDefined |-> workerDefined, timers |-> <<>>, workers |-> <<>>,
     inbox |-> <<>>, ops |-> 0,
     last |-> GameStep("step", NoChess, NoChess)]

\* the turn is the computer's
isComputerTurn(g) ==
    \/ (g.playerColor = "white" /\ turn(g.chess) = "b")
    \/ (g.playerColor = "black" /\ turn(g.chess) = "w")

\* shouldComputerMove()
shouldComputerMove(g) == isComputerTurn(g) /\ ~isGameOver(g.chess) /\ ~g.isThinking

\* initEngine(): nothing where there is no Worker; else a Worker is made
\* and kept in `worker` (one held before is not terminated), the first
\* commands are posted to it and the timer of the first computer move is
\* set
initEngine(g) ==
    IF ~g.workerDefined THEN g
    ELSE [g EXCEPT
            !.workers =
                Append(@, EngineWorker(
                    <<GameCommand("uci", 0, NoChess),
                      GameCommand("isready", 0, NoChess),
                      GameCommand("setoption name Skill Level value",
                                  g.computerLevel, NoChess)>>
                    \o (IF g.computerLevel < 10
                        THEN <<GameCommand("setoption name Depth value",
                                           IF g.computerLevel > 1
                                           THEN g.computerLevel ELSE 1, NoChess)>>
                        ELSE <<>>),
                    NoChess, NoChess)),
            !.worker = Len(g.workers) + 1,
            !.timers = Append(@, "init")]

\* the `go` command of makeComputerMove
goCommand(computerLevel) ==
    IF computerLevel >= 15 THEN GameCommand("go movetime", 2000, NoChess)
    ELSE IF computerLevel >= 10 THEN GameCommand("go movetime", 1000, NoChess)
    ELSE IF computerLevel >= 5 THEN GameCommand("go movetime", 500, NoChess)
    ELSE GameCommand("go depth", computerLevel, NoChess)

\* makeComputerMove()
makeComputerMove(g) ==
    IF g.worker = 0 \/ g.isThinking THEN g
    ELSE [g EXCEPT !.isThinking = TRUE,
                   !.workers[g.worker].commands =
                       @ \o << GameCommand("position fen", 0, g.chess),
                               goCommand(g.computerLevel) >>]

\* the callback of the timer set by initEngine
initTimer(g) == IF shouldComputerMove(g) THEN makeComputerMove(g) ELSE g

\* what chess.move makes of a move of the player: the move when it is
\* legal on the board, Thrown when chess.move throws
playerMoveResult(chess, move) ==
    IF move \in MovesOn(chess) THEN move ELSE Thrown

\* makePlayerMove(move)
makePlayerMove(g, move) ==
    IF g.isThinking \/ shouldComputerMove(g) THEN g
    ELSE IF playerMoveResult(g.chess, move) = Thrown THEN g
    ELSE LET made == [g EXCEPT !.chess = moved(@, move)]
         IN  IF shouldComputerMove(made)
             THEN [made EXCEPT !.timers = Append(@, "move")]
             ELSE made

\* What chess.move can make of the best move `move` of a search of the
\* board `search` on the board `chess`: Thrown when it throws.  On the
\* board it was searched on the move is legal and leaves what the search
\* found; on another board it is legal or not, and when legal it leaves
\* whatever a move can leave there.
engineMoveResults(move, search, chess) ==
    IF SameBoard(search, chess)
    THEN (IF move \in MovesOn(chess) THEN {move} ELSE {Thrown})
    ELSE {Thrown} \cup MovesOn(chess)

\* handleEngineMessage(event): `readyok`, or `bestmove <move>` (`move` is
\* "(none)" when the text after bestmove is no move); `result` is what
\* chess.move makes of the move
handleEngineMessage(g, message, move, result) ==
    IF message = "readyok"
    THEN IF shouldComputerMove(g) /\ ~g.isThinking THEN makeComputerMove(g) ELSE g
    ELSE IF message # "bestmove" THEN g
    ELSE IF move = "(none)" THEN [g EXCEPT !.isThinking = FALSE]
    ELSE IF result = Thrown THEN [g EXCEPT !.isThinking = FALSE]
    ELSE [g EXCEPT !.chess = moved(@, result), !.isThinking = FALSE]

\* reset(fen)
resetGame(g, fen) ==
    LET fresh == [g EXCEPT !.chess = Chess(g.chess.game + 1, fen, <<>>, 0),
                           !.isThinking = FALSE]
    IN  IF shouldComputerMove(fresh)
        THEN [fresh EXCEPT !.timers = Append(@, "move")]
        ELSE fresh

\* undo(): chess.undo(), and once more if the history is not empty
undo(g) ==
    IF g.isThinking THEN g
    ELSE LET n == Len(g.chess.history)
         IN  IF n = 0 THEN g
             ELSE IF n = 1
             THEN [g EXCEPT !.chess.history = <<>>, !.chess.undone = @ + 1]
             ELSE [g EXCEPT !.chess.history = SubSeq(@, 1, n - 2),
                            !.chess.undone = @ + 1]

\* the messages of `inbox` that the worker `w` did not post
NotFrom(inbox, w) ==
    LET Other(m) == m.from # w
    IN  SelectSeq(inbox, Other)

\* destroy(): the worker held is terminated and `worker` is null; what it
\* was sent, and what it had posted and was not yet handled, is lost
destroy(g) ==
    IF g.worker = 0 THEN g
    ELSE [g EXCEPT !.workers[g.worker] = Terminated,
                   !.inbox = NotFrom(@, g.worker),
                   !.worker = 0]

\* no game manager
NoGame == <<>>

(***************************************************************************)
(* State.                                                                  *)
(***************************************************************************)
VARIABLES
    currentDepth,      \* UCIParser.currentDepth
    moveAnalysis,      \* UCIParser.moveAnalysis, the live map
    depthAnalysis,     \* UCIParser.depthAnalysis, the archive
    isBlackToMove,     \* UCIParser.isBlackToMove
    analysisCallback,  \* TRUE when UCIParser.analysisCallback is set
    nCalls,            \* number of calls made so far
    pre,               \* the parser before the last call
    last,              \* the last call: its name, argument and results
    session,           \* what the lines fed since the last reset carried
    twin,              \* the parser of a run with some of the calls left out
    held,              \* the snapshot a consumer keeps, as it reads now
    given,             \* that snapshot as it read when it was handed out
    heap,              \* the parser with the objects it has made
    bar,               \* the EvaluationBar component and its worker
    gm                 \* the GameManager and its worker

vars == <<currentDepth, moveAnalysis, depthAnalysis, isBlackToMove,
          analysisCallback, nCalls, pre, last, session, twin, held, given,
          heap, bar, gm>>

\* the parser object made of the state variables
Parser == [currentDepth |-> currentDepth, moveAnalysis |-> moveAnalysis,
           depthAnalysis |-> depthAnalysis, isBlackToMove |-> isBlackToMove,
           analysisCallback |-> analysisCallback]

SetParser(p) ==
    /\ currentDepth' = p.currentDepth
    /\ moveAnalysis' = p.moveAnalysis
    /\ depthAnalysis' = p.depthAnalysis
    /\ isBlackToMove' = p.isBlackToMove
    /\ analysisCallback' = p.analysisCallback

NoCall == [op |-> "new", message |-> <<>>, flag |-> FALSE, ret |-> FALSE,
           writes |-> <<>>, calls |-> 0, delivered |-> NoSnapshot,
           snapshot |-> NoSnapshot, eval |-> NoEval]

\* the value of a line's own depth field (the token `depth <digits>`)
DepthField(message) ==
    LET i == FirstIdx({j \in 1..Len(message) :
                 message[j].key = "depth" /\ message[j].num >= 0})
    IN  IF i = 0 THEN Undefined ELSE message[i].num

\* What the lines fed since the last reset carried:
\*   fields   the values of their depth fields;
\*   ordered  the depth fields came in non-decreasing order;
\*   plain    every one of them had a depth field;
\*   written  the entries that the calls left in moveAnalysis;
\*   watched  a subscriber was set at every one of these calls;
\*   shown    the snapshot most recently passed to the subscriber.
NewSession == [fields |-> {}, ordered |-> TRUE, plain |-> TRUE, written |-> {},
               watched |-> TRUE, shown |-> NoSnapshot]

Fed(s, message, r) ==
    LET f == DepthField(message)
    IN  [fields |-> IF f = Undefined THEN s.fields ELSE s.fields \cup {f},
         ordered |-> s.ordered /\ (f = Undefined \/ \A g \in s.fields : g <= f),
         plain |-> s.plain /\ f # Undefined,
         written |-> s.written \cup
                     {MapGet(r.parser.moveAnalysis, r.writes[i]) : i \in 1..Len(r.writes)},
         watched |-> s.watched /\ r.parser.analysisCallback,
         shown |-> IF r.calls > 0 THEN r.delivered ELSE s.shown]

\* the greatest depth of an entry written for move m since the last reset
Recorded(m) ==
    LET ds == {e.depth : e \in {w \in session.written : w.move = m}}
    IN  IF ds = {} THEN Undefined ELSE CHOOSE d \in ds : \A x \in ds : x <= d

Init ==
    /\ currentDepth = NewParser.currentDepth
    /\ moveAnalysis = NewParser.moveAnalysis
    /\ depthAnalysis = NewParser.depthAnalysis
    /\ isBlackToMove = NewParser.isBlackToMove
    /\ analysisCallback = NewParser.analysisCallback
    /\ nCalls = 0
    /\ pre = NewParser
    /\ last = NoCall
    /\ session = NewSession
    /\ twin = NewParser
    /\ held = NoSnapshot
    /\ given = NoSnapshot
    /\ heap = NoHeap
    /\ bar = NoBar
    /\ gm = NoGame

(***************************************************************************)
(* The calls a consumer makes.                                             *)
(***************************************************************************)
\* the parser is used on its own, with no component around it and no
\* consumer that keeps a snapshot
Alone == UNCHANGED <<held, given, heap, bar, gm>>

\* a call that assigns no field of the parser
SameParser ==
    UNCHANGED <<currentDepth, moveAnalysis, depthAnalysis, isBlackToMove,
                analysisCallback>>

SetAnalysisCallback ==
    /\ nCalls < MaxCalls
    /\ SetParser(setAnalysisCallback(Parser))
    /\ pre' = Parser
    /\ last' = [NoCall EXCEPT !.op = "setAnalysisCallback"]
    /\ twin' = setAnalysisCallback(twin)
    /\ nCalls' = nCalls + 1
    /\ Alone
    /\ UNCHANGED session

Reset ==
    /\ nCalls < MaxCalls
    /\ SetParser(reset(Parser))
    /\ pre' = Parser
    /\ last' = [NoCall EXCEPT !.op = "reset"]
    /\ session' = NewSession
    /\ twin' = reset(twin)
    /\ nCalls' = nCalls + 1
    /\ Alone

SetSideToMove ==
    /\ nCalls < MaxCalls
    /\ \E isBlack \in BOOLEAN :
        /\ SetParser(setSideToMove(Parser, isBlack))
        /\ pre' = Parser
        /\ last' = [NoCall EXCEPT !.op = "setSideToMove", !.flag = isBlack]
        /\ nCalls' = nCalls + 1
        /\ Alone
        /\ UNCHANGED <<session, twin>>

ParseInfo ==
    /\ nCalls < MaxCalls
    /\ \E message \in Lines :
        \E r \in {parseInfo(Parser, message)} :
            /\ SetParser(r.parser)
            /\ nCalls' = nCalls + 1
            /\ Alone
            /\ pre' = Parser
            /\ last' = [NoCall EXCEPT !.op = "parseInfo", !.message = message,
                                      !.ret = r.ret, !.writes = r.writes,
                                      !.calls = r.calls, !.delivered = r.delivered]
            /\ session' = Fed(session, message, r)
            /\ twin' = parseInfo(twin, message).parser

ParseEvaluation ==
    /\ nCalls < MaxCalls
    /\ \E message \in EvalLines :
        /\ last' = [NoCall EXCEPT !.op = "parseEvaluation", !.message = message,
                                  !.eval = parseEvaluation(Parser, message)]
        /\ pre' = Parser
        /\ SameParser
        /\ UNCHANGED <<session, twin>>
        /\ nCalls' = nCalls + 1
        /\ Alone

GetSnapshot ==
    /\ nCalls < MaxCalls
    /\ \E isComplete \in BOOLEAN :
        /\ last' = [NoCall EXCEPT !.op = "getSnapshot", !.flag = isComplete,
                                  !.snapshot = getSnapshot(Parser, isComplete)]
        /\ pre' = Parser
        /\ SameParser
        /\ UNCHANGED <<session, twin>>
        /\ nCalls' = nCalls + 1
        /\ Alone

HandleBestMove ==
    /\ nCalls < MaxCalls
    /\ \E message \in BestMoveLines :
        \E r \in {handleBestMove(Parser, message)} :
            /\ SetParser(r.parser)
            /\ nCalls' = nCalls + 1
            /\ Alone
            /\ pre' = Parser
            /\ last' = [NoCall EXCEPT !.op = "handleBestMove", !.message = message,
                                      !.snapshot = r.snapshot]
            /\ twin' = handleBestMove(twin, message).parser
            /\ UNCHANGED session

Next ==
    \/ SetAnalysisCallback
    \/ Reset
    \/ SetSideToMove
    \/ ParseInfo
    \/ ParseEvaluation
    \/ GetSnapshot
    \/ HandleBestMove

Spec == Init /\ [][Next]_vars

(***************************************************************************)
(* Ranking.  The parser has been fed one of the feeds above; its snapshot  *)
(* is then asked for.                                                      *)
(***************************************************************************)
\* the parser and the session after parseInfo of lines[i], lines[i+1], ...
RECURSIVE FeedAll(_, _, _)
FeedAll(st, lines, i) ==
    IF i > Len(lines) THEN st
    ELSE LET r == parseInfo(st.parser, lines[i])
         IN  FeedAll([parser |-> r.parser, session |-> Fed(st.session, lines[i], r)],
                     lines, i + 1)

RankInit ==
    \E feed \in RankFeeds :
        \E st \in {FeedAll([parser |-> NewParser, session |-> NewSession], feed, 1)} :
            /\ currentDepth = st.parser.currentDepth
            /\ moveAnalysis = st.parser.moveAnalysis
            /\ depthAnalysis = st.parser.depthAnalysis
            /\ isBlackToMove = st.parser.isBlackToMove
            /\ analysisCallback = st.parser.analysisCallback
            /\ nCalls = 0
            /\ pre = st.parser
            /\ last = NoCall
            /\ session = st.session
            /\ twin = st.parser
            /\ held = NoSnapshot
            /\ given = NoSnapshot
            /\ heap = NoHeap
            /\ bar = NoBar
            /\ gm = NoGame

RankNext ==
    \/ GetSnapshot
    \/ HandleBestMove

RankSpec == RankInit /\ [][RankNext]_vars

(***************************************************************************)
(* The parser with its objects, used on its own.  `heap` is the parser,    *)
(* `twin` the parser of the run in which the same calls are made without   *)
(* the getSnapshot and parseEvaluation calls, `pre` the parser before the  *)
(* last call, `held` the snapshot object a consumer keeps and `given` what *)
(* the consumer read in it when it was handed out.                         *)
(***************************************************************************)
HeapFrame ==
    UNCHANGED <<currentDepth, moveAnalysis, depthAnalysis, isBlackToMove,
                analysisCallback, session, bar, gm>>

HeapInit ==
    /\ currentDepth = NewParser.currentDepth
    /\ moveAnalysis = NewParser.moveAnalysis
    /\ depthAnalysis = NewParser.depthAnalysis
    /\ isBlackToMove = NewParser.isBlackToMove
    /\ analysisCallback = NewParser.analysisCallback
    /\ nCalls = 0
    /\ pre = NewHeap
    /\ last = NoCall
    /\ session = NewSession
    /\ twin = NewHeap
    /\ held = NoSnapshot
    /\ given = NoSnapshot
    /\ heap = NewHeap
    /\ bar = NoBar
    /\ gm = NoGame

\* the call `op` led from heap to h
HeapCalled(h, op) ==
    /\ heap' = h
    /\ pre' = heap
    /\ last' = [NoCall EXCEPT !.op = op]
    /\ nCalls' = nCalls + 1
    /\ HeapFrame

\* a call hands out a snapshot while the parser becomes h: a consumer that
\* holds none takes it or lets it pass, a consumer that holds one keeps it
HeapHold(h, snapshot) ==
    \/ UNCHANGED <<held, given>>
    \/ /\ held.depth = Undefined
       /\ snapshot.depth # Undefined
       /\ held' = snapshot
       /\ given' = ReadSnapshot(h, snapshot)

HeapSetAnalysisCallback ==
    /\ nCalls < MaxHeapCalls
    /\ HeapCalled(heapSetAnalysisCallback(heap), "setAnalysisCallback")
    /\ twin' = heapSetAnalysisCallback(twin)
    /\ UNCHANGED <<held, given>>

HeapReset ==
    /\ nCalls < MaxHeapCalls
    /\ HeapCalled(heapReset(heap), "reset")
    /\ twin' = heapReset(twin)
    /\ UNCHANGED <<held, given>>

HeapSetSideToMove ==
    /\ nCalls < MaxHeapCalls
    /\ \E isBlack \in BOOLEAN :
        /\ HeapCalled(heapSetSideToMove(heap, isBlack), "setSideToMove")
        /\ twin' = heapSetSideToMove(twin, isBlack)
    /\ UNCHANGED <<held, given>>

HeapParseInfo ==
    /\ nCalls < MaxHeapCalls
    /\ \E message \in HeapLines :
        \E r \in {heapParseInfo(heap, message)} :
            /\ HeapCalled(r.heap, "parseInfo")
            /\ twin' = heapParseInfo(twin, message).heap
            /\ HeapHold(r.heap, r.delivered)

HeapParseEvaluation ==
    /\ nCalls < MaxHeapCalls
    /\ \E message \in HeapEvalLines :
        /\ HeapCalled(heapParseEvaluation(heap, message).heap, "parseEvaluation")
        /\ UNCHANGED <<twin, held, given>>

HeapGetSnapshot ==
    /\ nCalls < MaxHeapCalls
    /\ \E isComplete \in BOOLEAN :
        \E r \in {heapGetSnapshot(heap, isComplete)} :
            /\ HeapCalled(r.heap, "getSnapshot")
            /\ HeapHold(r.heap, r.snapshot)
    /\ UNCHANGED twin

HeapHandleBestMove ==
    /\ nCalls < MaxHeapCalls
    /\ \E message \in BestMoveLines :
        \E r \in {heapHandleBestMove(heap, message)} :
            /\ HeapCalled(r.heap, "handleBestMove")
            /\ twin' = heapHandleBestMove(twin, message).heap
            /\ HeapHold(r.heap, r.snapshot)

HeapNext ==
    \/ HeapSetAnalysisCallback
    \/ HeapReset
    \/ HeapSetSideToMove
    \/ HeapParseInfo
    \/ HeapParseEvaluation
    \/ HeapGetSnapshot
    \/ HeapHandleBestMove

HeapSpec == HeapInit /\ [][HeapNext]_vars

(***************************************************************************)
(* The EvaluationBar component: its parser, its worker and the two message *)
(* channels between them.  The engine takes a command when it is idle,     *)
(* reports lines for the position it is searching, and ends a search by a  *)
(* terminal line.                                                          *)
(***************************************************************************)
\* the calls on the parser are not recorded, there is no game manager
BarFrame == UNCHANGED <<nCalls, pre, last, session, twin, held, given, heap, gm>>

\* the component is constructed with a fen prop: the subscriber is set, and
\* the reactive block runs once (reset, setSideToMove, analyzePosition
\* without a worker)
BarInit ==
    \E fen \in Positions :
        \E p \in {setSideToMove(reset(setAnalysisCallback(NewParser)),
                                fenIsBlackToMove(fen))} :
            /\ currentDepth = p.currentDepth
            /\ moveAnalysis = p.moveAnalysis
            /\ depthAnalysis = p.depthAnalysis
            /\ isBlackToMove = p.isBlackToMove
            /\ analysisCallback = p.analysisCallback
            /\ nCalls = 0
            /\ pre = NewParser
            /\ last = NoCall
            /\ session = NewSession
            /\ twin = NewParser
            /\ held = NoSnapshot
            /\ given = NoSnapshot
            /\ heap = NoHeap
            /\ bar = NewBar(fen)
            /\ gm = NoGame

\* onMount: the worker is created and analyzePosition() is called
Mount ==
    /\ ~bar.worker
    /\ ~bar.destroyed
    /\ bar' = [bar EXCEPT !.worker = TRUE,
                          !.commands = @ \o analyzePosition(TRUE, bar.fen)]
    /\ UNCHANGED <<currentDepth, moveAnalysis, depthAnalysis, isBlackToMove,
                   analysisCallback>>
    /\ BarFrame

\* onDestroy: `if (worker) worker.terminate()`.  The terminated worker
\* takes no command and posts nothing any more, and its messages that were
\* not handled yet are dropped; the variable `worker` keeps the object
OnDestroy ==
    /\ ~bar.destroyed
    /\ bar' = IF bar.worker
              THEN [bar EXCEPT !.destroyed = TRUE, !.commands = <<>>,
                               !.searching = NoFen, !.inbox = <<>>]
              ELSE [bar EXCEPT !.destroyed = TRUE]
    /\ UNCHANGED <<currentDepth, moveAnalysis, depthAnalysis, isBlackToMove,
                   analysisCallback>>
    /\ BarFrame

\* the fen prop of the living component changes: `$: if (fen) { reset();
\* setSideToMove(..); analyzePosition(); }`
FenChange ==
    /\ ~bar.destroyed
    /\ bar.changes < MaxChanges
    /\ \E fen \in Positions \ {bar.fen} :
        /\ SetParser(setSideToMove(reset(Parser), fenIsBlackToMove(fen)))
        /\ bar' = [bar EXCEPT !.fen = fen,
                              !.changes = @ + 1,
                              !.commands = @ \o analyzePosition(bar.worker, fen),
                              !.handled = NoMessage,
                              !.dispatched = NoSnapshot,
                              !.seen = {}]
    /\ BarFrame

\* the idle engine takes the next command: `position fen ..` sets its
\* position, `go` starts a search of that position
WorkerTakes ==
    /\ bar.commands # <<>>
    /\ bar.searching = NoFen
    /\ \E c \in {Head(bar.commands)} :
        bar' = [bar EXCEPT !.commands = Tail(@),
                           !.position = IF c.name = "position" THEN c.fen ELSE @,
                           !.searching = IF c.name = "go" THEN bar.position ELSE @]
    /\ UNCHANGED <<currentDepth, moveAnalysis, depthAnalysis, isBlackToMove,
                   analysisCallback>>
    /\ BarFrame

\* the searching engine posts an info line
WorkerPostsInfo ==
    /\ bar.searching # NoFen
    /\ bar.posts < MaxPosts
    /\ \E line \in EngineLines(bar.searching) :
        bar' = [bar EXCEPT !.inbox = Append(@, Posted(line, bar.searching)),
                           !.posts = @ + 1]
    /\ UNCHANGED <<currentDepth, moveAnalysis, depthAnalysis, isBlackToMove,
                   analysisCallback>>
    /\ BarFrame

\* the searching engine posts its terminal line and is idle again
WorkerPostsBestMove ==
    /\ bar.searching # NoFen
    /\ bar.posts < MaxPosts
    /\ bar' = [bar EXCEPT !.inbox = Append(@, Posted(EngineBestMove(bar.searching),
                                                     bar.searching)),
                          !.posts = @ + 1,
                          !.searching = NoFen]
    /\ UNCHANGED <<currentDepth, moveAnalysis, depthAnalysis, isBlackToMove,
                   analysisCallback>>
    /\ BarFrame

\* worker.onmessage: handleMessage on the oldest message posted
HandleMessage ==
    /\ bar.inbox # <<>>
    /\ \E event \in {Head(bar.inbox)} :
        \E r \in {handleMessage(bar, Parser, event.data)} :
            /\ SetParser(r.parser)
            /\ bar' = [bar EXCEPT !.inbox = Tail(@),
                                  !.score = r.score,
                                  !.displayScore = r.displayScore,
                                  !.isMate = r.isMate,
                                  !.handled = event,
                                  !.dispatched = IF r.dispatched = NoSnapshot
                                                 THEN @ ELSE r.dispatched,
                                  !.seen = IF event.data[1].key = "info"
                                           THEN @ \cup {event} ELSE @]
    /\ BarFrame

BarNext ==
    \/ Mount
    \/ OnDestroy
    \/ FenChange
    \/ WorkerTakes
    \/ WorkerPostsInfo
    \/ WorkerPostsBestMove
    \/ HandleMessage

BarSpec == BarInit /\ [][BarNext]_vars

(***************************************************************************)
(* Properties.  Snap is what getSnapshot() returns now, PreSnap what it    *)
(* returned before the last call.                                          *)
(***************************************************************************)
Snap == getSnapshot(Parser, TRUE)
PreSnap == getSnapshot(pre, TRUE)

\* the last call was parseInfo of a line that has a depth field
FedDepthLine == last.op = "parseInfo" /\ DepthField(last.message) # Undefined

\* the first token of the line's currmove field and of its pv field
CurrMoveToken(message) ==
    LET i == FirstIdx({j \in 1..Len(message) : message[j].key = "currmove"})
    IN  IF i = 0 THEN NoMove ELSE message[i].mvs[1]
PvTokens(message) ==
    LET i == FirstIdx({j \in 1..Len(message) : message[j].key = "pv"})
    IN  IF i = 0 THEN <<>> ELSE message[i].mvs
\* the line's rank: its multipv field, 1 when it has none
RankField(message) ==
    LET i == FirstIdx({j \in 1..Len(message) : message[j].key = "multipv"})
    IN  IF i = 0 THEN 1 ELSE message[i].num
HasScore(message) == \E j \in 1..Len(message) : message[j].key \in {"cp", "mate"}

\* the state of the aggregator: currentDepth, live and archive
Core(p) == <<p.currentDepth, p.moveAnalysis, p.depthAnalysis>>

\* C1: no candidate move is lost across a depth transition: when lines at
\* depth d were fed and a line at depth d+1 is fed, every move of the
\* snapshot before that line is a move of the snapshot after it.
C1_NoMoveLost ==
    (FedDepthLine /\ (DepthField(last.message) - 1) \in session.fields)
        => MapKeys(PreSnap.moves) \subseteq MapKeys(Snap.moves)

\* C2: a candidate-only report never displaces principal-variation data at
\* the same or a shallower depth: when the snapshot holds a pv-bearing entry
\* for M recorded at depth d, a line that names M as currmove only, at a
\* depth <= d, leaves the snapshot entry of M unchanged.
C2_CandidateNeverDisplacesPv ==
    (FedDepthLine /\ PvTokens(last.message) = <<>>) =>
        LET m == CurrMoveToken(last.message)
            before == MapGet(PreSnap.moves, m)
        IN  (/\ before # NoEntry
             /\ before.pv # <<>>
             /\ DepthField(last.message) <= before.depth)
                => MapGet(Snap.moves, m) = before

\* C3: a principal-variation report always overwrites: after a line with a
\* depth, a score and a pv whose first move M is valid, the snapshot entry
\* of M has that line's depth, score, pv sequence and rank.
C3_PvAlwaysOverwrites ==
    (/\ FedDepthLine
     /\ HasScore(last.message)
     /\ PvTokens(last.message) # <<>>
     /\ PvTokens(last.message)[1] \in Moves)
        => LET entry == MapGet(Snap.moves, PvTokens(last.message)[1])
           IN  /\ entry # NoEntry
               /\ entry.depth = DepthField(last.message)
               /\ entry.score = extractScore(last.message)
               /\ entry.pv = PvTokens(last.message)
               /\ entry.multipv = RankField(last.message)

\* C4: monotonic recorded depth per move: while the depth fields of the
\* lines fed since the last reset are non-decreasing, after each line that
\* carries a valid move and a score the snapshot holds that move with a
\* depth at least every depth recorded for it in the session.
C4_MonotonicDepth ==
    (FedDepthLine /\ session.plain /\ session.ordered /\ HasScore(last.message)) =>
        LET moves == Snap.moves
        IN  \A m \in Moves :
                (CurrMoveToken(last.message) = m
                    \/ (PvTokens(last.message) # <<>> /\ PvTokens(last.message)[1] = m))
                    => /\ MapHas(moves, m)
                       /\ MapGet(moves, m).depth >= Recorded(m)

\* C5: consolidation preserves the highest-depth analysis of each move: the
\* depth of every snapshot entry is the greatest depth at which an entry was
\* written for that move since the last reset.
C5_HighestDepthKept ==
    LET moves == Snap.moves
    IN  \A i \in 1..Len(moves) : moves[i].depth = Recorded(moves[i].move)

\* C6: a line with no depth field is ignored: parseInfo returns false,
\* leaves currentDepth, live and archive unchanged and does not invoke the
\* subscriber.
C6_NoDepthIgnored ==
    (last.op = "parseInfo" /\ DepthField(last.message) = Undefined)
        => /\ ~last.ret
           /\ Core(Parser) = Core(pre)
           /\ last.calls = 0

\* C7: parseInfo returns true exactly when the call wrote an entry into the
\* live map; when it returns false the live map is what it was before the
\* call, or was emptied by the depth transition.
C7_ReturnsWhetherWritten ==
    last.op = "parseInfo"
        => /\ last.ret <=> (last.writes # <<>>)
           /\ last.ret =>
                \E m \in MapKeys(moveAnalysis) :
                    /\ MapGet(moveAnalysis, m).depth = MatchDepth(last.message)
                    /\ MapGet(moveAnalysis, m).score = extractScore(last.message)
           /\ ~last.ret => moveAnalysis \in {pre.moveAnalysis, <<>>}

C7_Witness ==
    /\ last.op = "parseInfo"
    /\ ~last.ret
    /\ MatchDepth(last.message) # Undefined
    /\ MatchCurrMove(last.message) # NoMove
    /\ extractScore(last.message) # NoScore
    /\ moveAnalysis # <<>>

\* C8: subscriber protocol: with a subscriber registered, a parseInfo call
\* that writes invokes it exactly once, after the writes, with the snapshot
\* of that moment marked not complete; a parseInfo call that writes nothing
\* and every other call invoke nothing.
C8_SubscriberProtocol ==
    /\ (last.op = "parseInfo" /\ pre.analysisCallback /\ last.writes # <<>>)
          => /\ last.calls = 1
             /\ ~last.delivered.isComplete
             /\ last.delivered = getSnapshot(Parser, FALSE)
             /\ \A i \in 1..Len(last.writes) :
                    MapGet(last.delivered.moves, last.writes[i])
                        = MapGet(moveAnalysis, last.writes[i])
    /\ (last.op = "parseInfo" /\ last.writes = <<>>) => last.calls = 0
    /\ last.op # "parseInfo" => last.calls = 0

C8_Witness ==
    /\ last.op = "parseInfo"
    /\ pre.analysisCallback
    /\ Len(last.writes) = 2
    /\ last.calls = 1
    /\ Len(last.delivered.moves) = 2

\* C9: reset returns the aggregator to its initial analysis state: depth 0,
\* empty live and archive, an empty snapshot without best move; and every
\* entry of a snapshot was written after the last reset.
C9_ResetClears ==
    LET snapshot == Snap
    IN  /\ last.op = "reset"
              => /\ currentDepth = 0
                 /\ moveAnalysis = <<>>
                 /\ depthAnalysis = <<>>
                 /\ snapshot.depth = 0
                 /\ snapshot.moves = <<>>
                 /\ snapshot.bestMove = NoMove
        /\ \A i \in 1..Len(snapshot.moves) : snapshot.moves[i] \in session.written

C9_Witness ==
    /\ last.op = "reset"
    /\ pre.currentDepth > 0
    /\ pre.moveAnalysis # <<>>
    /\ pre.depthAnalysis # <<>>

\* C10: setSideToMove does not interfere with storage or ranking: the run
\* without the setSideToMove calls has the same snapshot at every step.
C10_SideDoesNotInterfere ==
    /\ getSnapshot(twin, TRUE) = Snap
    /\ Core(twin) = Core(Parser)

C10_Witness ==
    /\ isBlackToMove
    /\ ~twin.isBlackToMove
    /\ last.op = "parseInfo"
    /\ last.ret
    /\ depthAnalysis # <<>>

\* C11: parseEvaluation and getSnapshot are read-only: a call of either
\* leaves currentDepth, the live map, the archive and the side to move as
\* they were and writes to no Map or entry object that existed before it,
\* and the parser reads at every step as it does in the run in which no
\* parseEvaluation or getSnapshot call was made, so every later snapshot is
\* the same.
C11_ReadOnly ==
    /\ last.op \in {"parseEvaluation", "getSnapshot"}
          => /\ View(heap) = View(pre)
             /\ \A map \in 1..Len(pre.maps) : heap.maps[map] = pre.maps[map]
             /\ \A entry \in 1..Len(pre.entries) :
                    heap.entries[entry] = pre.entries[entry]
    /\ View(heap) = View(twin)
    /\ ReadSnapshot(heapGetSnapshot(heap, TRUE).heap,
                    heapGetSnapshot(heap, TRUE).snapshot)
           = ReadSnapshot(heapGetSnapshot(twin, TRUE).heap,
                          heapGetSnapshot(twin, TRUE).snapshot)

C11_Witness ==
    /\ last.op = "getSnapshot"
    /\ heap.currentDepth > 0
    /\ heap.maps[heap.moveAnalysis] # <<>>
    /\ heap.depthAnalysis # <<>>
    /\ \E i \in 1..Len(heap.depthAnalysis) :
           \E j \in 1..Len(heap.maps[heap.depthAnalysis[i].moves]) :
               ~MapHas(heap.maps[heap.moveAnalysis],
                       heap.maps[heap.depthAnalysis[i].moves][j].move)
    /\ Len(heap.maps) > Len(twin.maps)

(***************************************************************************)
(* Evaluation of a line.  Scores are in hundredths of a pawn, so 1100      *)
(* pawns are 1100 * 100.                                                   *)
(***************************************************************************)
\* the last call was parseEvaluation
Evaluated == last.op = "parseEvaluation"

\* the line's mate score and its centipawn score
HasMate(message) == \E j \in 1..Len(message) : message[j].key = "mate"
MateOf(message) ==
    message[FirstIdx({j \in 1..Len(message) : message[j].key = "mate"})].num
HasCp(message) == \E j \in 1..Len(message) : message[j].key = "cp"
CpOf(message) ==
    message[FirstIdx({j \in 1..Len(message) : message[j].key = "cp"})].num

Abs(x) == IF x < 0 THEN 0 - x ELSE x

\* a number of hundredths written in pawns with two decimals
TwoDecimals(a) ==
    ToString(a \div 100) \o "." \o ToString((a % 100) \div 10) \o ToString(a % 10)

\* C12: checkmate-now rule: for a line whose score is mate 0 the result is
\* +1100 when the second player (black) is to move and -1100 when the first
\* player is to move; the display text is "#" and the mate flag is set.
C12_CheckmateNow ==
    (Evaluated /\ HasMate(last.message) /\ MateOf(last.message) = 0)
        => /\ last.eval.present
           /\ last.eval.score = (IF isBlackToMove THEN 1100 * 100 ELSE (0 - 1100) * 100)
           /\ last.eval.displayScore = "#"
           /\ last.eval.isMate

C12_Witness ==
    /\ Evaluated
    /\ last.message = <<FInfo, FDepth(0), FMate(0)>>
    /\ isBlackToMove
    /\ last.eval.score = 1100 * 100

\* C13, as stated: after setSideToMove(true), the evaluation of
\* `info depth 10 score mate 0` has score -1100, display text "#" and the
\* mate flag set.
C13_ScenarioCAsStated ==
    (Evaluated /\ last.message = ScenarioC /\ isBlackToMove)
        => /\ last.eval.score = (0 - 1100) * 100
           /\ last.eval.displayScore = "#"
           /\ last.eval.isMate

\* C13, amended: after setSideToMove(true), the evaluation of
\* `info depth 10 score mate 0` has score +1100, display text "#" and the
\* mate flag set.
C13_ScenarioC ==
    (Evaluated /\ last.message = ScenarioC /\ isBlackToMove)
        => /\ last.eval.score = 1100 * 100
           /\ last.eval.displayScore = "#"
           /\ last.eval.isMate

C13_Witness ==
    /\ Evaluated
    /\ last.message = ScenarioC
    /\ isBlackToMove
    /\ last.eval.present

\* C14: non-zero mate scores: with m' the mate distance of the line, negated
\* when black is to move, the score is 1000 - |m'| with the sign of m'
\* (positive for a mate by the first player), its magnitude is below the
\* checkmate-now value 1100, the display text is "+M|m'|" or "-M|m'|" and
\* the mate flag is set.
C14_NonZeroMate ==
    (Evaluated /\ HasMate(last.message) /\ MateOf(last.message) # 0) =>
        LET m == IF isBlackToMove THEN 0 - MateOf(last.message) ELSE MateOf(last.message)
        IN  /\ last.eval.present
            /\ last.eval.isMate
            /\ m > 0 => /\ last.eval.score = (1000 - Abs(m)) * 100
                        /\ last.eval.score > 0
                        /\ last.eval.displayScore = "+M" \o ToString(Abs(m))
            /\ m < 0 => /\ last.eval.score = 0 - (1000 - Abs(m)) * 100
                        /\ last.eval.score < 0
                        /\ last.eval.displayScore = "-M" \o ToString(Abs(m))
            /\ Abs(last.eval.score) < 1100 * 100

\* C15: perspective antisymmetry: for a line with a score other than mate 0
\* the score with black to move is the negation of the score with white to
\* move and the mate flag is the same; for mate 0 the two results are +1100
\* and -1100, both displayed as "#".
C15_Antisymmetry ==
    (Evaluated /\ last.eval.present) =>
        LET white == parseEvaluation(setSideToMove(Parser, FALSE), last.message)
            black == parseEvaluation(setSideToMove(Parser, TRUE), last.message)
        IN  /\ last.eval = (IF isBlackToMove THEN black ELSE white)
            /\ IF HasMate(last.message) /\ MateOf(last.message) = 0
               THEN /\ black.score = 1100 * 100
                    /\ white.score = (0 - 1100) * 100
                    /\ black.displayScore = "#"
                    /\ white.displayScore = "#"
               ELSE /\ black.score = 0 - white.score
                    /\ black.isMate = white.isMate

C15_Witness ==
    /\ Evaluated
    /\ isBlackToMove
    /\ ~HasMate(last.message)
    /\ HasCp(last.message)
    /\ CpOf(last.message) = 900
    /\ last.eval.score = 0 - 900

\* C16: centipawn rule: for a line with `score cp c` and no mate score the
\* score is c/100 pawns, negated when black is to move; the display text is
\* that value with two decimals, with "+" before a positive value, "-"
\* before a negative one and no sign for zero; `info depth 4 score cp -250`
\* with white to move gives -2.50 and "-2.50"; a line without a score gives
\* no result; a mate score on the line goes before a centipawn score.
C16_CentipawnRule ==
    Evaluated =>
        LET message == last.message
            v == IF isBlackToMove THEN 0 - CpOf(message) ELSE CpOf(message)
        IN  /\ (HasCp(message) /\ ~HasMate(message))
                  => /\ last.eval.present
                     /\ ~last.eval.isMate
                     /\ last.eval.score = v
                     /\ last.eval.displayScore =
                            (IF v > 0 THEN "+" ELSE IF v < 0 THEN "-" ELSE "")
                                \o TwoDecimals(Abs(v))
            /\ (message = ScenarioCp /\ ~isBlackToMove)
                  => /\ last.eval.score = 0 - 250
                     /\ last.eval.displayScore = "-2.50"
            /\ (~HasCp(message) /\ ~HasMate(message)) => last.eval = NoEval
            /\ (HasCp(message) /\ HasMate(message)) => last.eval.isMate

C16_Witness ==
    /\ Evaluated
    /\ last.message = ScenarioCp
    /\ ~isBlackToMove
    /\ last.eval.displayScore = "-2.50"

(***************************************************************************)
(* Best move.                                                              *)
(***************************************************************************)
\* the last call returned a snapshot
Snapshotted == last.op \in {"getSnapshot", "handleBestMove"}

\* the place of an entry in the ordering sample, 0 when it is not of it
SampleIndex(e) ==
    FirstIdx({i \in 1..Len(SampleMoves) :
                 SampleMoves[i] = e.move /\ SampleScores[i] = e.score})

\* C17: ordering sample: when the consolidated moves carry the scores mate
\* in 1, mate in 5, cp 900, cp 0, mate -5 and mate -1, the best move is the
\* entry that comes first in that order, whatever subset of them is there
\* and in whatever order their lines arrived.
C17_OrderingSample ==
    LET moves == last.snapshot.moves
        places == {SampleIndex(moves[i]) : i \in 1..Len(moves)}
    IN  (Snapshotted /\ moves # <<>> /\ 0 \notin places)
            => last.snapshot.bestMove = SampleMoves[FirstIdx(places)]

C17_Witness ==
    /\ Snapshotted
    /\ Len(last.snapshot.moves) = Len(SampleMoves)
    /\ \A i \in 1..Len(SampleMoves) : SampleIndex(last.snapshot.moves[i]) # 0
    /\ last.snapshot.moves[1].score = Mate(0 - 1)
    /\ last.snapshot.moves[2].score = Cp(900)
    /\ last.snapshot.moves[Len(SampleMoves)].score = Mate(1)
    /\ last.snapshot.bestMove = SampleMoves[1]

\* C18: mate scores dominate centipawn scores: a move with a winning mate
\* score (mate k, k > 0) is preferred over a move with any score cp c, and
\* a move with any score cp c is preferred over a move with a losing mate
\* score (mate k, k <= 0), so the best move is never the lesser of the two.
C18_MateDominates ==
    Snapshotted =>
        LET moves == last.snapshot.moves
        IN  \A i, j \in 1..Len(moves) :
                /\ (/\ moves[i].score.type = "mate"
                    /\ moves[i].score.value > 0
                    /\ moves[j].score.type = "cp")
                      => last.snapshot.bestMove # moves[j].move
                /\ (/\ moves[i].score.type = "cp"
                    /\ moves[j].score.type = "mate"
                    /\ moves[j].score.value <= 0)
                      => last.snapshot.bestMove # moves[j].move

\* C19: rank tie-break: the best move has the highest comparison score of
\* the consolidated moves and, among the moves that share that score, the
\* smallest rank, whatever order the entries were inserted in.
C19_RankTieBreak ==
    LET moves == last.snapshot.moves
        best == MapGet(moves, last.snapshot.bestMove)
        top == {i \in 1..Len(moves) :
                   \A j \in 1..Len(moves) :
                       calculateNumericScore(moves[j].score)
                           <= calculateNumericScore(moves[i].score)}
    IN  (Snapshotted /\ moves # <<>>)
            => /\ best # NoEntry
               /\ \E i \in top : moves[i] = best
               /\ \A i \in top : best.multipv <= moves[i].multipv

C19_Witness ==
    /\ Snapshotted
    /\ Len(last.snapshot.moves) = 3
    /\ \A i \in 1..3 : last.snapshot.moves[i].score = Cp(900)
    /\ last.snapshot.moves[1].multipv = 2
    /\ last.snapshot.moves[2].multipv = 2
    /\ last.snapshot.moves[3].multipv = 1
    /\ last.snapshot.bestMove = last.snapshot.moves[3].move

\* C20: handleBestMove returns getSnapshot(true): the snapshot is complete
\* and has depth currentDepth; the call stores the live map in the archive
\* under currentDepth exactly when the live map is not empty and
\* currentDepth > 0, leaves the other archived depths, currentDepth and the
\* live map as they were, and does not depend on the move of the line.
C20_AnalysisEnd ==
    last.op = "handleBestMove" =>
        /\ last.snapshot.isComplete
        /\ last.snapshot.depth = currentDepth
        /\ last.snapshot = getSnapshot(Parser, TRUE)
        /\ currentDepth = pre.currentDepth
        /\ moveAnalysis = pre.moveAnalysis
        /\ isBlackToMove = pre.isBlackToMove
        /\ IF pre.moveAnalysis # <<>> /\ pre.currentDepth > 0
           THEN /\ DepthHas(depthAnalysis, currentDepth)
                /\ DepthGet(depthAnalysis, currentDepth) = moveAnalysis
                /\ \A i \in 1..Len(pre.depthAnalysis) :
                       pre.depthAnalysis[i].depth # currentDepth
                           => \E j \in 1..Len(depthAnalysis) :
                                  depthAnalysis[j] = pre.depthAnalysis[i]
                /\ \A j \in 1..Len(depthAnalysis) :
                       depthAnalysis[j].depth # currentDepth
                           => \E i \in 1..Len(pre.depthAnalysis) :
                                  depthAnalysis[j] = pre.depthAnalysis[i]
           ELSE depthAnalysis = pre.depthAnalysis
        /\ \A other \in BestMoveLines :
               handleBestMove(pre, other) = handleBestMove(pre, last.message)

C20_Witness ==
    /\ last.op = "handleBestMove"
    /\ last.message = <<FBestMove(t0000)>>
    /\ pre.currentDepth > 0
    /\ pre.moveAnalysis # <<>>
    /\ pre.depthAnalysis # <<>>
    /\ Len(depthAnalysis) = Len(pre.depthAnalysis) + 1
    /\ Len(last.snapshot.moves) = 2

(***************************************************************************)
(* The steps of parseInfo.                                                 *)
(***************************************************************************)
\* the token is a move as a whole
WholeMove(tok) == tok # NoMove /\ MovePrefix(tok) = tok

\* the last call was parseInfo of a line that reports a principal variation
\* only: a depth, a score, a pv whose first token is a move, no currmove
FedPvLine ==
    /\ FedDepthLine
    /\ HasScore(last.message)
    /\ PvTokens(last.message) # <<>>
    /\ WholeMove(PvTokens(last.message)[1])
    /\ CurrMoveToken(last.message) = NoMove

\* C21: multiple principal variations stay distinct: a pv line at the
\* current depth leaves an entry keyed by its first move that carries its
\* rank and changes the entry of no other move; a snapshot has one entry
\* per move; the two lines of depth 3 with ranks 1 and 2 for e2e4 and d2d4,
\* followed by the terminal line, give exactly these two moves and the
\* best move e2e4.
C21_MultiPvDistinct ==
    /\ (FedPvLine /\ DepthField(last.message) = pre.currentDepth) =>
           LET M == PvTokens(last.message)[1]
           IN  /\ MapGet(Snap.moves, M).move = M
               /\ MapGet(Snap.moves, M).multipv = RankField(last.message)
               /\ \A i \in 1..Len(PreSnap.moves) :
                      PreSnap.moves[i].move # M
                          => MapGet(Snap.moves, PreSnap.moves[i].move) = PreSnap.moves[i]
    /\ \A i, j \in 1..Len(Snap.moves) :
           Snap.moves[i].move = Snap.moves[j].move => i = j
    /\ (/\ last.op = "handleBestMove"
        /\ pre.depthAnalysis = <<>>
        /\ MapGet(pre.moveAnalysis, e2e4).pv = <<e2e4, e7e5>>
        /\ MapGet(pre.moveAnalysis, d2d4).pv = <<d2d4, d7d5>>)
          => /\ MapKeys(last.snapshot.moves) = {e2e4, d2d4}
             /\ Len(last.snapshot.moves) = 2
             /\ last.snapshot.bestMove = e2e4

\* C22: snapshots are immutable views: the depth, the moves with all their
\* fields, the best move and the completeness flag of a snapshot that was
\* returned by getSnapshot or handleBestMove or passed to the subscriber
\* read, after any later calls, as they did when it was handed out.
C22_SnapshotImmutable == ReadSnapshot(heap, held) = given

C22_Witness ==
    /\ given.moves # <<>>
    /\ last.op \in {"parseInfo", "reset"}
    /\ \E i \in 1..Len(given.moves) :
           /\ MapGet(View(heap).moveAnalysis, given.moves[i].move) # given.moves[i]
           /\ \E entry \in 1..Len(heap.entries) : heap.entries[entry] = given.moves[i]
    /\ given.depth # heap.currentDepth

\* C23: a malformed principal variation is rejected without losing the rest
\* of the line: when the first token after pv is not a move as a whole, the
\* pv step records no entry under any key, a valid currmove with a score on
\* the same line is still recorded, and the depth transition is applied.
C23_MalformedPvRejected ==
    (/\ FedDepthLine
     /\ PvTokens(last.message) # <<>>
     /\ ~WholeMove(PvTokens(last.message)[1])) =>
        LET M == CurrMoveToken(last.message)
        IN  /\ \A i \in 1..Len(moveAnalysis) :
                   moveAnalysis[i].pv # <<>>
                       => MapGet(pre.moveAnalysis, moveAnalysis[i].move) = moveAnalysis[i]
            /\ (WholeMove(M) /\ HasScore(last.message))
                   => /\ MapHas(moveAnalysis, M)
                      /\ last.ret
            /\ DepthField(last.message) > pre.currentDepth
                   => currentDepth = DepthField(last.message)

\* the archive `after` is the archive `before` with `live` stored under d
Archived(after, before, d, live) ==
    /\ DepthHas(after, d)
    /\ DepthGet(after, d) = live
    /\ \A i \in 1..Len(before) :
           before[i].depth # d => \E j \in 1..Len(after) : after[j] = before[i]
    /\ \A j \in 1..Len(after) :
           after[j].depth # d => \E i \in 1..Len(before) : before[i] = after[j]

\* the live map holds nothing but what the last call wrote
OnlyWritten == \A m \in MapKeys(moveAnalysis) : \E i \in 1..Len(last.writes) : last.writes[i] = m

\* C24: depth-increase step: when the depth of the line is greater than
\* currentDepth, the live map is stored in the archive under the old
\* currentDepth if and only if it is not empty and the old currentDepth is
\* above 0, every other archived depth keeps its content, the live map is
\* emptied before the moves of the line are written, and currentDepth
\* becomes the depth of the line; when the depth of the line equals
\* currentDepth nothing is cleared or archived.
C24_DepthIncrease ==
    FedDepthLine =>
        LET d == DepthField(last.message)
        IN  /\ d > pre.currentDepth
                  => /\ currentDepth = d
                     /\ OnlyWritten
                     /\ IF pre.moveAnalysis # <<>> /\ pre.currentDepth > 0
                        THEN Archived(depthAnalysis, pre.depthAnalysis,
                                      pre.currentDepth, pre.moveAnalysis)
                        ELSE depthAnalysis = pre.depthAnalysis
            /\ d = pre.currentDepth
                  => /\ currentDepth = pre.currentDepth
                     /\ depthAnalysis = pre.depthAnalysis
                     /\ MapKeys(pre.moveAnalysis) \subseteq MapKeys(moveAnalysis)

\* C25: shallower lines are processed: a line whose depth is below
\* currentDepth leaves currentDepth and the archive as they were, does not
\* clear the live map, and every entry it writes into the live map carries
\* the depth of the line itself.
C25_ShallowerProcessed ==
    (FedDepthLine /\ DepthField(last.message) < pre.currentDepth) =>
        /\ currentDepth = pre.currentDepth
        /\ depthAnalysis = pre.depthAnalysis
        /\ MapKeys(pre.moveAnalysis) \subseteq MapKeys(moveAnalysis)
        /\ \A i \in 1..Len(last.writes) :
               MapGet(moveAnalysis, last.writes[i]).depth = DepthField(last.message)

\* the moves of the archive that the live map does not have
ArchivedOnly ==
    {m \in UNION {MapKeys(depthAnalysis[i].moves) : i \in 1..Len(depthAnalysis)} :
         ~MapHas(moveAnalysis, m)}

\* C26: live entries take priority over archived ones: for every move of
\* the live map the entry of the snapshot is the live entry, whatever the
\* archive holds for that move; a move that is only in the archive appears
\* in the snapshot with the figures of an archived entry of that move.
C26_LivePriority ==
    \A shown \in {Snap.moves} :
        /\ \A i \in 1..Len(moveAnalysis) :
               MapGet(shown, moveAnalysis[i].move) = moveAnalysis[i]
        /\ \A m \in ArchivedOnly :
               /\ MapHas(shown, m)
               /\ \E i \in 1..Len(depthAnalysis) :
                      /\ MapHas(depthAnalysis[i].moves, m)
                      /\ MapGet(shown, m) = MapGet(depthAnalysis[i].moves, m)

\* e2e4 was archived at depth 1 with one score and is live at depth 2 with
\* another one, d2d4 is archived only
C26_Witness ==
    /\ currentDepth = 2
    /\ MapHas(moveAnalysis, e2e4)
    /\ DepthHas(depthAnalysis, 1)
    /\ MapHas(DepthGet(depthAnalysis, 1), e2e4)
    /\ MapGet(DepthGet(depthAnalysis, 1), e2e4).score
           # MapGet(moveAnalysis, e2e4).score
    /\ MapGet(Snap.moves, e2e4).depth = 2
    /\ d2d4 \in ArchivedOnly
    /\ MapGet(Snap.moves, d2d4).depth = 1

\* the live map as the candidate-move step of the last call found it: empty
\* when the call raised currentDepth, the live map before the call otherwise
LiveAtCandidateStep ==
    IF currentDepth > pre.currentDepth THEN <<>> ELSE pre.moveAnalysis

\* the last call was parseInfo of a line with a depth field, a score and
\* the valid currmove M, whose pv (if any) does not start with M
FedCandidate(M) ==
    /\ FedDepthLine
    /\ HasScore(last.message)
    /\ WholeMove(M)
    /\ CurrMoveToken(last.message) = M
    /\ (PvTokens(last.message) = <<>> \/ MovePrefix(PvTokens(last.message)[1]) # M)

\* C27: candidate-move step within the live map: for a line with a valid
\* currmove M and a score, the live entry of M is written (score, rank, no
\* pv) if and only if the live map has no entry for M or its entry has no
\* pv; an entry of M that has a pv is left as it was, whatever the depth
\* of the line.
C27_CandidateStep ==
    \A M \in Moves :
        FedCandidate(M) =>
            LET existing == MapGet(LiveAtCandidateStep, M)
                written == \E i \in 1..Len(last.writes) : last.writes[i] = M
                entry == MapGet(moveAnalysis, M)
            IN  /\ written <=> (existing = NoEntry \/ existing.pv = <<>>)
                /\ written => /\ entry.score = extractScore(last.message)
                              /\ entry.multipv = RankField(last.message)
                              /\ entry.pv = <<>>
                /\ ~written => entry = existing

\* a currmove line for e2e4 at a depth below currentDepth finds a live
\* entry of e2e4 that has a pv and leaves it
C27_Witness ==
    /\ FedCandidate(e2e4)
    /\ DepthField(last.message) < pre.currentDepth
    /\ MapGet(pre.moveAnalysis, e2e4) # NoEntry
    /\ MapGet(pre.moveAnalysis, e2e4).pv # <<>>
    /\ MapGet(moveAnalysis, e2e4) = MapGet(pre.moveAnalysis, e2e4)
    /\ ~last.ret

\* the last call was parseInfo of a line with a depth field, a score, a
\* valid currmove and a pv whose first token is a valid move
FedBoth ==
    /\ FedDepthLine
    /\ HasScore(last.message)
    /\ WholeMove(CurrMoveToken(last.message))
    /\ PvTokens(last.message) # <<>>
    /\ WholeMove(PvTokens(last.message)[1])

\* C28: a line that carries both a currmove and a pv runs both writing
\* steps in order: when the currmove is the first move of the pv, the entry
\* of that move is the one with the pv; when they are different moves, both
\* have an entry; in both cases parseInfo returns true and the subscriber,
\* if one is set, is invoked once.
C28_BothSteps ==
    FedBoth =>
        LET M == CurrMoveToken(last.message)
            F == PvTokens(last.message)[1]
        IN  /\ MapHas(moveAnalysis, F)
            /\ MapGet(moveAnalysis, F).pv # <<>>
            /\ MapGet(moveAnalysis, F).pv[1] = F
            /\ MapGet(moveAnalysis, F).score = extractScore(last.message)
            /\ M # F => MapHas(moveAnalysis, M)
            /\ last.ret
            /\ last.calls = (IF pre.analysisCallback THEN 1 ELSE 0)

\* a line with currmove e2e4 and pv e2e4 was fed while a subscriber was
\* set and e2e4 had no live entry: e2e4 has the entry with the pv
C28_Witness ==
    /\ FedBoth
    /\ CurrMoveToken(last.message) = e2e4
    /\ PvTokens(last.message)[1] = e2e4
    /\ ~MapHas(LiveAtCandidateStep, e2e4)
    /\ MapGet(moveAnalysis, e2e4).pv = <<e2e4>>
    /\ pre.analysisCallback
    /\ last.ret
    /\ last.calls = 1

\* the last call was parseInfo of a line with a depth field and nothing to
\* record: neither a currmove nor a pv, or no score
FedNoMove ==
    /\ FedDepthLine
    /\ \/ (CurrMoveToken(last.message) = NoMove /\ PvTokens(last.message) = <<>>)
       \/ ~HasScore(last.message)

\* C29: a line with a depth field but no recordable move (no currmove and
\* no pv, or no score) makes parseInfo return false and invoke no
\* subscriber, and the depth transition is applied all the same: when the
\* depth of the line is greater than currentDepth, the live map is archived
\* under the old currentDepth (if it is not empty and that depth is above
\* 0) and emptied, and currentDepth is raised.
C29_NoMoveLine ==
    FedNoMove =>
        /\ ~last.ret
        /\ last.calls = 0
        /\ DepthField(last.message) > pre.currentDepth
              => /\ moveAnalysis = <<>>
                 /\ currentDepth > pre.currentDepth
                 /\ IF pre.moveAnalysis # <<>> /\ pre.currentDepth > 0
                    THEN Archived(depthAnalysis, pre.depthAnalysis,
                                  pre.currentDepth, pre.moveAnalysis)
                    ELSE depthAnalysis = pre.depthAnalysis

\* the greatest depth field of the lines fed since the last reset, 0 if none
GreatestField ==
    IF session.fields = {} THEN 0
    ELSE CHOOSE d \in session.fields : \A x \in session.fields : x <= d

\* C30: the depth of the snapshot is the running maximum: between resets it
\* equals the greatest depth field of the lines fed since the last reset (0
\* if there was none), and no parseInfo call makes it smaller, whatever the
\* order of the lines and whether or not they carried a move.
C30_RunningMaximum ==
    /\ Snap.depth = GreatestField
    /\ last.op = "parseInfo" => Snap.depth >= PreSnap.depth

\* C31: the set of known moves only grows between resets: whatever the
\* depths of the lines and their order (depth 0, repeated depths, shallower
\* lines after deeper ones, lines after the terminal line), a parseInfo or
\* handleBestMove call keeps every key of the snapshot taken before it in
\* the snapshot taken after it.
C31_KnownMovesGrow ==
    last.op \in {"parseInfo", "handleBestMove"}
        => MapKeys(PreSnap.moves) \subseteq MapKeys(Snap.moves)

\* C32: the view of the subscriber is never stale: when a subscriber was
\* set at every parseInfo call since the last reset, then after each of
\* these calls the snapshot most recently passed to the subscriber has the
\* depth, the moves and the best move of getSnapshot(false) at that moment,
\* or none was passed and getSnapshot has no moves.
C32_ViewNeverStale ==
    (last.op = "parseInfo" /\ session.watched) =>
        \A now \in {getSnapshot(Parser, FALSE)} :
            IF session.shown = NoSnapshot
            THEN now.moves = <<>>
            ELSE /\ session.shown.depth = now.depth
                 /\ session.shown.moves = now.moves
                 /\ session.shown.bestMove = now.bestMove

\* C33: handleBestMove is neutral for an observer apart from isComplete:
\* the snapshot it returns has the depth, the moves and the best move of
\* getSnapshot() called just before it, and a second handleBestMove right
\* after the first returns an equal snapshot and leaves the state of the
\* first.
C33_AnalysisEndNeutral ==
    last.op = "handleBestMove" =>
        /\ last.snapshot.depth = PreSnap.depth
        /\ last.snapshot.moves = PreSnap.moves
        /\ last.snapshot.bestMove = PreSnap.bestMove
        /\ \A message \in BestMoveLines :
               \A again \in {handleBestMove(Parser, message)} :
                   /\ again.snapshot = last.snapshot
                   /\ again.parser = Parser

\* the terminal line came while e2e4 was live with an entry that differs
\* from the one archived at depth 1; the call stored the live map in the
\* archive and the snapshot shows the live entry
C33_Witness ==
    /\ last.op = "handleBestMove"
    /\ depthAnalysis # pre.depthAnalysis
    /\ MapHas(moveAnalysis, e2e4)
    /\ MapHas(DepthGet(depthAnalysis, 1), e2e4)
    /\ MapGet(DepthGet(depthAnalysis, 1), e2e4) # MapGet(moveAnalysis, e2e4)
    /\ MapGet(last.snapshot.moves, e2e4) = MapGet(moveAnalysis, e2e4)
    /\ last.snapshot.isComplete

\* C34: reset() changes only the analysis data: the side to move and the
\* subscriber are after the call what they were before it, so that
\* parseEvaluation after setSideToMove(b) and reset() converts as for side b.
C34_ResetKeepsSide ==
    last.op = "reset" =>
        /\ isBlackToMove = pre.isBlackToMove
        /\ analysisCallback = pre.analysisCallback
        /\ \A message \in EvalLines :
               parseEvaluation(Parser, message) = parseEvaluation(pre, message)

\* C35: the best move is well defined in every snapshot: it is absent if
\* and only if the snapshot has no moves, and otherwise it is a key of the
\* moves whose comparison score is the greatest of all entries.
C35_BestMoveDefined ==
    \A snapshot \in {Snap} :
        /\ snapshot.bestMove = NoMove <=> snapshot.moves = <<>>
        /\ snapshot.moves # <<>> =>
               /\ MapHas(snapshot.moves, snapshot.bestMove)
               /\ \A i \in 1..Len(snapshot.moves) :
                      calculateNumericScore(snapshot.moves[i].score)
                          <= calculateNumericScore(
                                 MapGet(snapshot.moves, snapshot.bestMove).score)

\* a snapshot of three moves or more was returned whose best move is not
\* the first entry and has a greater comparison score than the first
C35_Witness ==
    /\ Snapshotted
    /\ Len(last.snapshot.moves) >= 3
    /\ last.snapshot.bestMove # last.snapshot.moves[1].move
    /\ calculateNumericScore(last.snapshot.moves[1].score)
           < calculateNumericScore(
                 MapGet(last.snapshot.moves, last.snapshot.bestMove).score)

\* C40: structural invariants of the aggregator in every reachable state: a
\* map has one entry for a move; every live entry has a depth of at most
\* currentDepth; every archived depth k is between 1 and currentDepth, its
\* map is not empty and its entries have a depth of at most k; and a
\* parseInfo call that does not raise currentDepth, whatever it writes to
\* the live map, leaves every archived map as it was.
C40_Structure ==
    /\ \A i, j \in 1..Len(moveAnalysis) :
           moveAnalysis[i].move = moveAnalysis[j].move => i = j
    /\ \A i \in 1..Len(moveAnalysis) : moveAnalysis[i].depth <= currentDepth
    /\ \A k \in 1..Len(depthAnalysis) :
           /\ 1 <= depthAnalysis[k].depth
           /\ depthAnalysis[k].depth <= currentDepth
           /\ depthAnalysis[k].moves # <<>>
           /\ \A i, j \in 1..Len(depthAnalysis[k].moves) :
                  depthAnalysis[k].moves[i].move = depthAnalysis[k].moves[j].move
                      => i = j
           /\ \A i \in 1..Len(depthAnalysis[k].moves) :
                  depthAnalysis[k].moves[i].depth <= depthAnalysis[k].depth
    /\ (last.op = "parseInfo" /\ currentDepth = pre.currentDepth)
           => depthAnalysis = pre.depthAnalysis

\* a line wrote to the live map at the depth under which the terminal line
\* had archived it: the archived map is the one of before
C40_Witness ==
    /\ last.op = "parseInfo"
    /\ last.writes # <<>>
    /\ currentDepth = pre.currentDepth
    /\ moveAnalysis # pre.moveAnalysis
    /\ DepthHas(depthAnalysis, currentDepth)
    /\ DepthGet(depthAnalysis, currentDepth) = pre.moveAnalysis

\* the moves the engine reports for a position
MovesFor(fen) == {PvTokens(line)[1] : line \in EngineLines(fen)}

\* C36: no contamination across positions in EvaluationBar: when the fen
\* prop has changed while the worker was still posting messages for the
\* position of before, no message of the search of that position is
\* handled after the reset made for the new one, and every snapshot
\* dispatched after the change has only moves analysed for the new position.
C36_NoContamination ==
    /\ bar.handled # NoMessage => bar.handled.of = bar.fen
    /\ bar.dispatched # NoSnapshot
           => MapKeys(bar.dispatched.moves) \subseteq MovesFor(bar.fen)

\* the deepest depth of the info lines handled since the last fen change
DeepestSeen ==
    CHOOSE d \in {DepthField(e.data) : e \in bar.seen} :
        \A e \in bar.seen : DepthField(e.data) <= d

\* the info lines handled since the last fen change are lines of the
\* current position, and every rank of their deepest depth is among them
AllRanksSeen ==
    /\ bar.seen # {}
    /\ \A e \in bar.seen : e.of = bar.fen
    /\ \A line \in EngineLines(bar.fen) :
           \E e \in bar.seen : /\ DepthField(e.data) = DeepestSeen
                               /\ RankField(e.data) = RankField(line)

\* C37: EvaluationBar shows the evaluation of the primary line: once the
\* info lines of all ranks of a depth have been handled, in any order, the
\* score, displayScore and isMate displayed are those of the line of rank
\* 1 of the deepest depth reported.
C37_PrimaryLineShown ==
    AllRanksSeen =>
        \E e \in bar.seen :
            /\ DepthField(e.data) = DeepestSeen
            /\ RankField(e.data) = 1
            /\ \E primary \in {parseEvaluation(Parser, e.data)} :
                   /\ bar.score = primary.score
                   /\ bar.displayScore = primary.displayScore
                   /\ bar.isMate = primary.isMate

(***************************************************************************)
(* The game manager with its workers and its timers.                       *)
(***************************************************************************)
GameFrame ==
    UNCHANGED <<currentDepth, moveAnalysis, depthAnalysis, isBlackToMove,
                analysisCallback, nCalls, pre, last, session, twin, held, given,
                heap, bar>>

\* the levels a manager is made with: below 1, 5 to 9, 10 to 14, above 20
Levels == {0, 7, 10, 25}

\* new GameManager(initialFen, playerColor, computerLevel)
GameInit ==
    /\ currentDepth = NewParser.currentDepth
    /\ moveAnalysis = NewParser.moveAnalysis
    /\ depthAnalysis = NewParser.depthAnalysis
    /\ isBlackToMove = NewParser.isBlackToMove
    /\ analysisCallback = NewParser.analysisCallback
    /\ nCalls = 0
    /\ pre = NewParser
    /\ last = NoCall
    /\ session = NewSession
    /\ twin = NewParser
    /\ held = NoSnapshot
    /\ given = NoSnapshot
    /\ heap = NoHeap
    /\ bar = NoBar
    /\ gm \in {NewGame(fen, playerColor, computerLevel, workerDefined) :
                   fen \in GameFens, playerColor \in {"white", "black"},
                   computerLevel \in Levels, workerDefined \in BOOLEAN}

\* the step `op` led from gm to g; `search` is the search it answered
Stepped(g, op, search) ==
    [g EXCEPT !.last = IF op \in {"search", "applied", "rejected"}
                       THEN GameStep(op, gm.chess, search)
                       ELSE GameStep("step", NoChess, NoChess)]

\* the call `op` of a method of the manager led from gm to g: a call that
\* changes nothing leaves no trace
Called(g, op) ==
    IF g = gm THEN gm ELSE [Stepped(g, op, NoChess) EXCEPT !.ops = @ + 1]

\* the timers without the i-th
WithoutTimer(timers, i) ==
    [j \in 1..(Len(timers) - 1) |-> IF j < i THEN timers[j] ELSE timers[j + 1]]

\* initEngine(), with or without a worker held
InitEngine ==
    /\ gm.ops < MaxOps
    /\ gm' = Called(initEngine(gm), "initEngine")
    /\ GameFrame

\* a pending timer fires: the one of initEngine checks shouldComputerMove()
\* first, the others call makeComputerMove()
TimerFires ==
    /\ \E i \in 1..Len(gm.timers) :
        \E g \in {[gm EXCEPT !.timers = WithoutTimer(@, i)]} :
            \E after \in {IF gm.timers[i] = "init" THEN initTimer(g)
                          ELSE makeComputerMove(g)} :
                gm' = Stepped(after,
                              IF after.workers # g.workers THEN "search" ELSE "timer",
                              NoChess)
    /\ GameFrame

\* makePlayerMove(move)
MakePlayerMove ==
    /\ gm.ops < MaxOps
    /\ \E move \in MoveKinds \cup {"illegal"} :
        gm' = Called(makePlayerMove(gm, move), "makePlayerMove")
    /\ GameFrame

\* reset(fen)
ResetGame ==
    /\ gm.ops < MaxOps
    /\ \E fen \in GameFens :
        gm' = Called(resetGame(gm, fen), "reset")
    /\ GameFrame

\* undo()
Undo ==
    /\ gm.ops < MaxOps
    /\ gm' = Called(undo(gm), "undo")
    /\ GameFrame

\* destroy()
Destroy ==
    /\ gm.ops < MaxOps
    /\ gm' = Called(destroy(gm), "destroy")
    /\ GameFrame

\* the place in `commands` of the first command the worker answers or
\* starts a search for (`isready`, `go`), their number when there is none
NextAnswered(commands) ==
    LET answered == {i \in 1..Len(commands) :
                        commands[i].name = "isready" \/ isGo(commands[i])}
    IN  IF answered = {} THEN Len(commands)
        ELSE CHOOSE i \in answered : \A j \in answered : i <= j

\* the board of the last `position` command of `commands`, `position` when
\* there is none
PositionSet(commands, position) ==
    LET set == {i \in 1..Len(commands) : commands[i].name = "position fen"}
    IN  IF set = {} THEN position
        ELSE commands[CHOOSE i \in set : \A j \in set : i >= j].chess

\* an idle worker takes the commands posted to it up to the next it
\* answers: `isready` is answered by `readyok`, `position` sets the board,
\* `go` starts a search of it, `uci` and `setoption` change nothing here
EngineTakes ==
    /\ \E w \in 1..Len(gm.workers) :
        /\ gm.workers[w].commands # <<>>
        /\ gm.workers[w].searching = NoChess
        /\ \E n \in {NextAnswered(gm.workers[w].commands)} :
            \E position \in {PositionSet(SubSeq(gm.workers[w].commands, 1, n),
                                         gm.workers[w].position)} :
                gm' = Stepped([gm EXCEPT
                          !.workers[w] = EngineWorker(
                              SubSeq(@.commands, n + 1, Len(@.commands)),
                              position,
                              IF isGo(@.commands[n]) THEN position ELSE NoChess),
                          !.inbox = IF gm.workers[w].commands[n].name = "isready"
                                    THEN Append(@, EngineMessage("readyok", Thrown,
                                                                 NoChess, w))
                                    ELSE @],
                        "taken", NoChess)
    /\ GameFrame

\* a search ends: the worker posts its best move, a move that is legal on
\* the board searched, `bestmove (none)` where there is none
EnginePostsBestMove ==
    /\ \E w \in 1..Len(gm.workers) :
        /\ gm.workers[w].searching # NoChess
        /\ \E move \in (IF MovesOn(gm.workers[w].searching) = {} THEN {"(none)"}
                        ELSE MovesOn(gm.workers[w].searching)) :
            gm' = Stepped([gm EXCEPT
                      !.workers[w].searching = NoChess,
                      !.inbox = Append(@, EngineMessage("bestmove", move,
                                                        gm.workers[w].searching, w))],
                    "posted", NoChess)
    /\ GameFrame

\* worker.onmessage: the next message of the workers is handled
HandleEngineMessage ==
    /\ gm.inbox # <<>>
    /\ \E m \in {Head(gm.inbox)} :
        \E g \in {[gm EXCEPT !.inbox = Tail(@)]} :
            \E result \in (IF m.data = "bestmove" /\ m.move # "(none)"
                           THEN engineMoveResults(m.move, m.of, gm.chess)
                           ELSE {Thrown}) :
                \E after \in {handleEngineMessage(g, m.data, m.move, result)} :
                    gm' = Stepped(after,
                                  IF m.data = "bestmove"
                                  THEN (IF result # Thrown THEN "applied" ELSE "rejected")
                                  ELSE IF after.workers # g.workers THEN "search"
                                  ELSE "readyok",
                                  m.of)
    /\ GameFrame

GameNext ==
    \/ InitEngine
    \/ TimerFires
    \/ MakePlayerMove
    \/ ResetGame
    \/ Undo
    \/ Destroy
    \/ EngineTakes
    \/ EnginePostsBestMove
    \/ HandleEngineMessage

GameSpec == GameInit /\ [][GameNext]_vars

\* the `go` commands posted to the workers and not yet taken
GoPosted ==
    UNION {{<<w, i>> : i \in {j \in 1..Len(gm.workers[w].commands) :
                                  isGo(gm.workers[w].commands[j])}} :
           w \in 1..Len(gm.workers)}

\* the searches asked of the workers and not yet answered to the manager
Outstanding ==
    Cardinality(GoPosted)
    + Cardinality({w \in 1..Len(gm.workers) : gm.workers[w].searching # NoChess})
    + Cardinality({i \in 1..Len(gm.inbox) : gm.inbox[i].data = "bestmove"})

\* C38: a search is requested, and an engine move is applied to the board,
\* only when it is the computer's turn on the board the step found
C38_TurnDiscipline ==
    gm.last.op \in {"search", "applied"}
        => isComputerTurn([gm EXCEPT !.chess = gm.last.chess])

\* C39: at most one search is outstanding at any time, and an applied best
\* move answers a search of the game it is applied to
C39_OwnSearchOnly ==
    /\ Outstanding <= 1
    /\ gm.last.op = "applied" => gm.last.search.game = gm.last.chess.game

====
